---------------------------- MODULE Spec2Model ----------------------------
(***************************************************************************)
(* book-finder: the availability-resolution pipeline.                      *)
(*                                                                         *)
(*   src/src/weread_api.py    WeReadSearchResult, WeReadAPIClient          *)
(*   src/src/llm_analyzer.py  LLMAnalyzer, SearchKeywordsResult,           *)
(*                            BookAnalysisResult                           *)
(*   src/src/main.py          BookFinderApp (run and its four stages),     *)
(*                            main                                         *)
(*   src/src/notifier.py      NotificationMessage, Notifier                *)
(*                                                                         *)
(* Conventions.  A Python str is a TLA+ string, or a sequence of strings   *)
(* for an f-string that joins its parts with a blank (f"{title} {author}"  *)
(* is <<title, author>>); a keyword is always such a sequence.  Python's   *)
(* None is the string None where the other values are strings and the      *)
(* number NoneNum where they are JSON numbers.  A dict is a function whose *)
(* DOMAIN is its set of keys, so that a missing key and a null value stay  *)
(* apart.  A confidence c is the integer 100 * c.  An optional object is a *)
(* sequence of length 0 or 1.                                              *)
(***************************************************************************)
EXTENDS Integers, Sequences, FiniteSets, TLC

VARIABLES
    remote,         \* what the remote endpoints may answer in this behaviour:
                    \*   bodies    the search endpoint's HTTP 200 bodies
                    \*   kw_texts  the model's texts for a keyword prompt
                    \*   an_texts  the model's texts for a judgment prompt
                    \*   search_errors, llm_errors  how a call may fail
                    \*   responses what a webhook may do with a request
    books,          \* what NotionBookClient.get_books_to_check returns
    pc,             \* where the program is
    i,              \* enumerate(books, 1) of the running stage
    kg,             \* frame of the running generate_search_keywords call
    keywords_result,\* what it returned: <<>> or <<SearchKeywordsResult>>
    sb,             \* frame of the running WeReadAPIClient.search_book call
    search_ret,     \* what it returned: <<>> or <<WeReadSearchResult>>
    reqLog,         \* the requests search_book has issued in this call, in order
    search_results, \* _search_books_sync: search_results
    an,             \* frame of the running analyze_search_result call
    analysis_ret,   \* what it returned: <<>> or <<BookAnalysisResult>>
    analysis_results, \* _analyze_results: analysis_results
    anLog,          \* per analysed book, how its analysis ended
    stats,          \* _update_notion: stats
    message,        \* _send_notification: <<>> or <<NotificationMessage>>
    exc,            \* the exception that left run(), or None
    nf,             \* frame of the running Notifier.send call
    callLog         \* what run() has called and slept, in order, with the
                    \* book each call was for, as the caller sees it

vars == <<remote, books, pc, i, kg, keywords_result, sb, search_ret, reqLog,
          search_results, an, analysis_ret, analysis_results, anLog, stats,
          message, exc, nf, callLog>>

\* the variables of each stage, for UNCHANGED
genVars    == <<kg, keywords_result>>
searchVars == <<sb, search_ret, reqLog>>
anVars     == <<an, analysis_ret>>
runVars    == <<i, search_results, analysis_results, anLog, stats, message, exc,
                callLog>>

(***************************************************************************)
(* Bounds of the model and constants of the program                        *)
(***************************************************************************)
MaxBooks    == 2          \* longest batch get_books_to_check returns
MaxKeywords == 2          \* longest keyword list the remote model writes

max_retries     == 3      \* CrawlerConfig.max_retries
llm_max_retries == 3      \* max_retries of the two LLMAnalyzer methods
MaxFound    == 10         \* books[:10]
NoneNum     == -1         \* None, among JSON numbers

None == "None"

(***************************************************************************)
(* Python helpers                                                          *)
(***************************************************************************)
\* dict.get(key, default)
Get(d, key, default) == IF key \in DOMAIN d THEN d[key] ELSE default

\* truth value of a str
TruthyStr(s) == s # None /\ s # ""

\* s[:n]
Take(s, n) == SubSeq(s, 1, IF Len(s) < n THEN Len(s) ELSE n)

(***************************************************************************)
(* WeReadSearchResult (weread_api.py:14-33)                                *)
(***************************************************************************)
\* has_results taken from the provider's count instead of the list
ResultByTotalCount(book_title, search_keyword, found_books, total_count, error) ==
    [ book_title     |-> book_title,
      search_keyword |-> search_keyword,
      found_books    |-> found_books,
      total_count    |-> total_count,
      error          |-> error,
      has_results    |-> total_count > 0 ]

WeReadSearchResult(book_title, search_keyword, found_books, total_count, error) ==
    [ book_title     |-> book_title,
      search_keyword |-> search_keyword,
      found_books    |-> found_books,
      total_count    |-> total_count,
      error          |-> error,
      has_results    |-> Len(found_books) > 0 ]

(***************************************************************************)
(* WeReadAPIClient.search_book (weread_api.py:59-194)                      *)
(***************************************************************************)
\* lines 125-131: the availability state of one record.  The third branch
\* is the f-string "未知状态(bookStatus=.., soldout=..)"; its two values are
\* the record's book_status and soldout fields.
\* "or" for "and" in the first test
StatusWithOr(book_status, soldout) ==
    IF book_status = 1 \/ soldout = 0 THEN "Readable"
    ELSE IF book_status = 5 \/ soldout = 1 THEN "PendingRelease"
    ELSE "Unknown"

AvailabilityStatus(book_status, soldout) ==
    IF book_status = 1 /\ soldout = 0 THEN "Readable"
    ELSE IF book_status = 5 \/ soldout = 1 THEN "PendingRelease"
    ELSE "Unknown"

\* lines 119-147: one provider record in the standard format
FoundBook(book_data) ==
    LET book_info   == Get(book_data, "bookInfo", <<>>)
        book_status == Get(book_info, "bookStatus", NoneNum)
        soldout     == Get(book_info, "soldout", 0)
    IN  [ book_id             |-> Get(book_info, "bookId", ""),
          availability_status |-> AvailabilityStatus(book_status, soldout),
          book_status         |-> book_status,
          soldout             |-> soldout ]

\* every record of the body is kept
FoundBooksUncut(records) ==
    [j \in 1..Len(records) |-> FoundBook(records[j])]

\* lines 117-147: found_books of a response body
FoundBooks(records) ==
    LET head == Take(records, MaxFound)
    IN  [j \in 1..Len(head) |-> FoundBook(head[j])]

\* lines 77-83: the keyword list the call works through
\* the default list built with the author whether one is given or not
SearchKeywordsWithAuthor(book_title, author, custom_keywords) ==
    IF Len(custom_keywords) > 0 THEN custom_keywords
    ELSE << <<book_title>>, <<book_title, author>> >>

SearchKeywords(book_title, author, custom_keywords) ==
    IF Len(custom_keywords) > 0 THEN custom_keywords
    ELSE IF TruthyStr(author) THEN << <<book_title>>, <<book_title, author>> >>
    ELSE << <<book_title>> >>

\* line 108: data before the first answer that parses
NoData == [books |-> <<>>]

\* lines 85-91: the frame on entry, before the first request
SearchFrame(book_title, author, custom_keywords) ==
    [ book_title      |-> book_title,
      search_keywords |-> SearchKeywords(book_title, author, custom_keywords),
      k               |-> 1,
      retry_count     |-> 0,
      last_error      |-> None,
      data            |-> NoData ]

NoFrame == [ book_title |-> "", search_keywords |-> <<>>, k |-> 0,
             retry_count |-> 0, last_error |-> None, data |-> NoData ]

\* one request of the call, as reqLog keeps it: the index of its keyword,
\* how it ended ("found", "empty", "fail"), the error a failure recorded,
\* and whether _random_delay (lines 54-57) was slept after it
Request(k, res, err, slept) == [kw |-> k, res |-> res, err |-> err, slept |-> slept]

\* error=last_error, without the fixed message for a call no request of
\* which failed
SearchExhaustedBare(f, last_error) ==
    WeReadSearchResult(f.book_title, f.search_keywords[1], <<>>, 0, last_error)

\* lines 187-194: every keyword was tried without a non-empty answer
SearchExhausted(f, last_error) ==
    WeReadSearchResult(f.book_title, f.search_keywords[1], <<>>, 0,
                       IF TruthyStr(last_error) THEN last_error ELSE "no results")

\* last_error initialised inside the for loop instead of before it
NextKeywordForgets(f, last_error) ==
    IF f.k < Len(f.search_keywords)
    THEN /\ sb' = [f EXCEPT !.k = f.k + 1, !.retry_count = 0,
                             !.last_error = None]
         /\ search_ret' = <<>>
         /\ pc' = pc
    ELSE /\ sb' = [f EXCEPT !.last_error = last_error]
         /\ search_ret' = << SearchExhausted(f, last_error) >>
         /\ pc' = "searched"

\* line 88: the for loop takes the next keyword, or the loop ends (187-194)
NextKeyword(f, last_error) ==
    IF f.k < Len(f.search_keywords)
    THEN /\ sb' = [f EXCEPT !.k = f.k + 1, !.retry_count = 0,
                             !.last_error = last_error]
         /\ search_ret' = <<>>
         /\ pc' = pc
    ELSE /\ sb' = [f EXCEPT !.last_error = last_error]
         /\ search_ret' = << SearchExhausted(f, last_error) >>
         /\ pc' = "searched"

\* the books are found but the loop goes on instead of returning
SearchFoundGoesOn ==
    /\ pc = "search"
    /\ \E body \in remote.bodies :
        /\ FoundBooks(Get(body, "books", <<>>)) # <<>>
        /\ NextKeyword([sb EXCEPT !.data = body], sb.last_error)
    /\ reqLog' = Append(reqLog, Request(sb.k, "found", None, FALSE))
    /\ UNCHANGED <<nf, remote, books, genVars, anVars, runVars>>

\* lines 99-157: HTTP 200, a body that parses, at least one book: return
SearchFound ==
    /\ pc = "search"
    /\ \E body \in remote.bodies :
        /\ FoundBooks(Get(body, "books", <<>>)) # <<>>
        /\ search_ret' = << WeReadSearchResult(sb.book_title,
                                sb.search_keywords[sb.k],
                                FoundBooks(Get(body, "books", <<>>)),
                                Get(body, "totalCount", 0), None) >>
        /\ sb' = [sb EXCEPT !.data = body]
    /\ reqLog' = Append(reqLog, Request(sb.k, "found", None, FALSE))
    /\ pc' = "searched"
    /\ UNCHANGED <<nf, remote, books, genVars, anVars, runVars>>

\* an empty answer counted as a failed attempt of the keyword
SearchEmptyRetries ==
    /\ pc = "search"
    /\ \E body \in remote.bodies :
        /\ FoundBooks(Get(body, "books", <<>>)) = <<>>
        /\ IF sb.retry_count + 1 < max_retries
           THEN /\ sb' = [sb EXCEPT !.retry_count = @ + 1, !.data = body]
                /\ UNCHANGED <<search_ret, pc>>
           ELSE NextKeyword([sb EXCEPT !.data = body], sb.last_error)
    /\ reqLog' = Append(reqLog, Request(sb.k, "empty", None, FALSE))
    /\ UNCHANGED <<nf, remote, books, genVars, anVars, runVars>>

\* lines 99-161: HTTP 200, a body that parses, no book: break
SearchEmpty ==
    /\ pc = "search"
    /\ \E body \in remote.bodies :
        /\ FoundBooks(Get(body, "books", <<>>)) = <<>>
        /\ NextKeyword([sb EXCEPT !.data = body], sb.last_error)
    /\ reqLog' = Append(reqLog, Request(sb.k, "empty", None, FALSE))
    /\ UNCHANGED <<nf, remote, books, genVars, anVars, runVars>>

\* what the three failure branches record in last_error:
\* line 165 (status), line 173 (RequestException), line 181 (Exception)
SearchErrors == {"HTTP 500", "request failed", "malformed body"}

\* retry_count <= max_retries for retry_count < max_retries
SearchFailOnceMore ==
    /\ pc = "search"
    /\ \E e \in remote.search_errors :
        LET retry_count == sb.retry_count + 1
        IN  IF retry_count <= max_retries
            THEN /\ sb' = [sb EXCEPT !.retry_count = retry_count, !.last_error = e]
                 /\ reqLog' = Append(reqLog, Request(sb.k, "fail", e, TRUE))
                 /\ UNCHANGED <<search_ret, pc>>
            ELSE /\ reqLog' = Append(reqLog, Request(sb.k, "fail", e, FALSE))
                 /\ NextKeyword(sb, e)
    /\ UNCHANGED <<nf, remote, books, genVars, anVars, runVars>>

\* the delay slept after every failed attempt, the keyword's last included
SearchFailSleepsLast ==
    /\ pc = "search"
    /\ \E e \in remote.search_errors :
        LET retry_count == sb.retry_count + 1
        IN  IF retry_count < max_retries
            THEN /\ sb' = [sb EXCEPT !.retry_count = retry_count, !.last_error = e]
                 /\ reqLog' = Append(reqLog, Request(sb.k, "fail", e, TRUE))
                 /\ UNCHANGED <<search_ret, pc>>
            ELSE /\ reqLog' = Append(reqLog, Request(sb.k, "fail", e, TRUE))
                 /\ NextKeyword(sb, e)
    /\ UNCHANGED <<nf, remote, books, genVars, anVars, runVars>>

\* lines 163-185: a failed attempt; sleep and retry, or give the keyword up
SearchFail ==
    /\ pc = "search"
    /\ \E e \in remote.search_errors :
        LET retry_count == sb.retry_count + 1
        IN  IF retry_count < max_retries
            THEN /\ sb' = [sb EXCEPT !.retry_count = retry_count, !.last_error = e]
                 /\ reqLog' = Append(reqLog, Request(sb.k, "fail", e, TRUE))
                 /\ UNCHANGED <<search_ret, pc>>
            ELSE /\ reqLog' = Append(reqLog, Request(sb.k, "fail", e, FALSE))
                 /\ NextKeyword(sb, e)
    /\ UNCHANGED <<nf, remote, books, genVars, anVars, runVars>>

search_book == SearchFound \/ SearchEmpty \/ SearchFail

(***************************************************************************)
(* The remote model's text.  A text is what the three decoders of          *)
(* _parse_llm_response make of it:                                         *)
(*   strict   json.loads(text)                                             *)
(*   fence    "```json" in text;  fenced  json.loads of the fenced block   *)
(*   brace    the text has a '{' before its last '}';                      *)
(*   braced   json.loads of that span                                      *)
(* A decoded value is [type, d]: type "dict" with d the dict, type         *)
(* "other" for any other JSON value, "undecodable" for JSONDecodeError,    *)
(* "raises" for the RecursionError of a text nested too deep.              *)
(***************************************************************************)
Dict(d)     == [type |-> "dict", d |-> d]
OtherJson   == [type |-> "other", d |-> <<>>]
Undecodable == [type |-> "undecodable", d |-> <<>>]
TooDeep     == [type |-> "raises", d |-> <<>>]

PlainText(v)  == [strict |-> v, fence |-> FALSE, fenced |-> Undecodable,
                  brace |-> v.type = "dict", braced |-> v]
FencedText(v) == [strict |-> Undecodable, fence |-> TRUE, fenced |-> v,
                  brace |-> v.type = "dict", braced |-> v]
BracedText(v) == [strict |-> Undecodable, fence |-> FALSE, fenced |-> Undecodable,
                  brace |-> TRUE, braced |-> v]
Garbage       == [strict |-> Undecodable, fence |-> FALSE, fenced |-> Undecodable,
                  brace |-> FALSE, braced |-> Undecodable]

(***************************************************************************)
(* LLMAnalyzer._parse_llm_response (llm_analyzer.py:233-272)               *)
(***************************************************************************)
\* lines 265-272
DefaultObject ==
    Dict([is_available |-> FALSE, confidence |-> 0,
          matched_title |-> None, matched_author |-> None,
          reasoning |-> "parse failed", recommended_keywords |-> <<>>])

\* json.loads raises only JSONDecodeError for a text that is no JSON, and
\* that is all the three handlers catch; a step whose text is nested deeper
\* than the interpreter's recursion limit makes it raise RecursionError,
\* which leaves the function: the value of type "raises" is that outcome.
_parse_llm_response(response_text) ==
    IF response_text.strict.type # "undecodable" THEN response_text.strict
    ELSE IF response_text.fence /\ response_text.fenced.type # "undecodable"
         THEN response_text.fenced
    ELSE IF response_text.brace /\ response_text.braced.type # "undecodable"
         THEN response_text.braced
    ELSE DefaultObject

(***************************************************************************)
(* SearchKeywordsResult (llm_analyzer.py:14-34) and                        *)
(* LLMAnalyzer._parse_keywords_response (llm_analyzer.py:607-638)          *)
(***************************************************************************)
SearchKeywordsResult(book_title, keywords, error) ==
    [book_title |-> book_title, keywords |-> keywords, error |-> error]

\* The value of the "keywords" key is [list, items]: list says whether it
\* is a JSON array, items are its entries (for a value that is no array:
\* empty exactly when the value is falsy).
NoKeywords == [list |-> TRUE, items |-> <<>>]

\* the keywords of the answer taken as they are
ParseKeywordsUnchecked(response_text, book_title) ==
    LET result_dict == _parse_llm_response(response_text)
    IN  IF result_dict.type # "dict"
        THEN SearchKeywordsResult(book_title, << <<book_title>> >>, "parse failed")
        ELSE SearchKeywordsResult(book_title,
                Get(result_dict.d, "keywords", NoKeywords).items, None)

_parse_keywords_response(response_text, book_title) ==
    LET result_dict == _parse_llm_response(response_text)
    IN  IF result_dict.type # "dict"
        THEN \* .get on a value that is no dict: AttributeError, lines 631-638
             SearchKeywordsResult(book_title, << <<book_title>> >>, "parse failed")
        ELSE LET keywords == Get(result_dict.d, "keywords", NoKeywords)
             IN  SearchKeywordsResult(book_title,
                    IF Len(keywords.items) = 0 \/ ~keywords.list
                    THEN << <<book_title>> >> ELSE keywords.items,
                    None)

(***************************************************************************)
(* LLMAnalyzer.generate_search_keywords (llm_analyzer.py:409-513)          *)
(***************************************************************************)
\* what the two except branches record in last_error: line 487, line 496
ApiError   == "api error"
OtherError == "attribute error"
LLMErrors  == {ApiError, OtherError}

\* lines 428-429; result_text (line 461) is <<>> before the call answers
LLMFrame(book_title, author) ==
    [book_title |-> book_title, author |-> author, retry_count |-> 0,
     last_error |-> None, slept |-> <<>>, result_text |-> <<>>]

NoLLMFrame == LLMFrame("", None)

\* the same wait after every failure
BackoffFixed(e, retry_count) == IF e = ApiError THEN 2 ELSE 1

\* lines 490-492 and 499-501: the wait before the next attempt
Backoff(e, retry_count) == IF e = ApiError THEN 2 ^ retry_count ELSE 1

\* line 512: f"LLM生成失败，使用默认关键词: {last_error}"
GenerationFailed(last_error) ==
    IF last_error = ApiError THEN "generation failed: api error"
    ELSE IF last_error = OtherError THEN "generation failed: attribute error"
    ELSE "generation failed: None"

\* the defaults without the keyword that carries the author
DefaultKeywordsTitleOnly(f, last_error) ==
    SearchKeywordsResult(f.book_title, << <<f.book_title>> >>,
                         GenerationFailed(last_error))

\* lines 503-513
DefaultKeywordsResult(f, last_error) ==
    SearchKeywordsResult(f.book_title,
        IF TruthyStr(f.author)
        THEN << <<f.book_title>>, <<f.book_title, f.author>> >>
        ELSE << <<f.book_title>> >>,
        GenerationFailed(last_error))

\* lines 450-483: the call answers; the text is parsed and returned
GenAnswer ==
    /\ pc = "keywords"
    /\ \E text \in remote.kw_texts :
        /\ kg' = [kg EXCEPT !.result_text = <<text>>]
        /\ keywords_result' = << _parse_keywords_response(text, kg.book_title) >>
    /\ pc' = "generated"
    /\ UNCHANGED <<nf, remote, books, searchVars, anVars, runVars>>

\* lines 485-513: the call fails; wait and retry, or return the defaults
GenFail ==
    /\ pc = "keywords"
    /\ \E e \in remote.llm_errors :
        LET retry_count == kg.retry_count + 1
        IN  IF retry_count < llm_max_retries
            THEN /\ kg' = [kg EXCEPT !.retry_count = retry_count, !.last_error = e,
                                     !.slept = Append(@, Backoff(e, retry_count))]
                 /\ UNCHANGED <<keywords_result, pc>>
            ELSE /\ kg' = [kg EXCEPT !.retry_count = retry_count, !.last_error = e]
                 /\ keywords_result' = << DefaultKeywordsResult(kg, e) >>
                 /\ pc' = "generated"
    /\ UNCHANGED <<nf, remote, books, searchVars, anVars, runVars>>

generate_search_keywords == GenAnswer \/ GenFail

(***************************************************************************)
(* BookAnalysisResult (llm_analyzer.py:37-58) and                          *)
(* LLMAnalyzer.analyze_search_result (llm_analyzer.py:274-378)             *)
(***************************************************************************)
BookAnalysisResult(book_title, is_available, confidence, reasoning, error) ==
    [book_title |-> book_title, is_available |-> is_available,
     confidence |-> confidence, reasoning |-> reasoning, error |-> error]

\* lines 293-294, with the arguments of the call
AnalyzeFrame(book_title, search_result, author) ==
    [book_title |-> book_title, author |-> author,
     search_result |-> search_result, retry_count |-> 0,
     last_error |-> None, slept |-> <<>>,
     response_text |-> <<>>,
     outcome |-> [kind |-> "running", d |-> <<>>]]

NoAnalyzeFrame ==
    AnalyzeFrame("", WeReadSearchResult("", <<>>, <<>>, 0, None), None)

\* lines 341-349: the result built from the parsed answer
AnswerResult(book_title, parsed_result) ==
    BookAnalysisResult(book_title,
        Get(parsed_result, "is_available", FALSE),
        Get(parsed_result, "confidence", 0),
        Get(parsed_result, "reasoning", None),
        None)

\* line 376: f"LLM分析失败: {last_error}"
AnalysisFailed(last_error) ==
    IF last_error = ApiError THEN "analysis failed: api error"
    ELSE IF last_error = OtherError THEN "analysis failed: attribute error"
    ELSE "analysis failed: None"

\* the failed result built with a confidence of one half
FailedResultHalf(book_title, last_error) ==
    BookAnalysisResult(book_title, FALSE, 50, AnalysisFailed(last_error), last_error)

\* the failed result built without its error
FailedResultNoError(book_title, last_error) ==
    BookAnalysisResult(book_title, FALSE, 0, AnalysisFailed(last_error), None)

\* the failed result built as an available one
FailedResultAvailable(book_title, last_error) ==
    BookAnalysisResult(book_title, TRUE, 90, AnalysisFailed(last_error), last_error)

\* lines 370-378: every attempt failed
FailedResult(book_title, last_error) ==
    BookAnalysisResult(book_title, FALSE, 0, AnalysisFailed(last_error), last_error)

\* lines 314-349: the call answers with a text that parses to a dict
AnalyzeAnswer ==
    /\ pc = "analyze"
    /\ \E text \in remote.an_texts :
        LET parsed_result == _parse_llm_response(text)
        IN  /\ parsed_result.type = "dict"
            /\ analysis_ret' = << AnswerResult(an.book_title, parsed_result.d) >>
            /\ an' = [an EXCEPT !.response_text = <<text>>,
                                 !.outcome = [kind |-> "answer", d |-> parsed_result.d]]
    /\ pc' = "analyzed"
    /\ UNCHANGED <<nf, remote, books, genVars, searchVars, runVars>>

\* how an attempt may fail: the remote call raises (response_text keeps
\* the text of the last answer), or it answers with a text on which lines
\* 338-349 raise: _parse_llm_response raises on it, or returns no dict, so
\* that parsed_result.get (line 343) raises AttributeError; both are
\* handled by the except Exception of line 361
AttemptFailures ==
    { [error |-> e, response_text |-> an.response_text] : e \in remote.llm_errors }
    \cup
    { [error |-> OtherError, response_text |-> <<text>>] :
        text \in { t \in remote.an_texts : _parse_llm_response(t).type # "dict" } }

\* lines 351-378: the attempt fails; wait and retry, or return the failed
\* result
AnalyzeFail ==
    /\ pc = "analyze"
    /\ \E failure \in AttemptFailures :
        LET retry_count == an.retry_count + 1
            e == failure.error
        IN  IF retry_count < llm_max_retries
            THEN /\ an' = [an EXCEPT !.retry_count = retry_count, !.last_error = e,
                                     !.response_text = failure.response_text,
                                     !.slept = Append(@, Backoff(e, retry_count))]
                 /\ UNCHANGED <<analysis_ret, pc>>
            ELSE /\ an' = [an EXCEPT !.retry_count = retry_count, !.last_error = e,
                                     !.response_text = failure.response_text,
                                     !.outcome = [kind |-> "failed", d |-> <<>>]]
                 /\ analysis_ret' = << FailedResult(an.book_title, e) >>
                 /\ pc' = "analyzed"
    /\ UNCHANGED <<nf, remote, books, genVars, searchVars, runVars>>

analyze_search_result == AnalyzeAnswer \/ AnalyzeFail

(***************************************************************************)
(* BookFinderApp (main.py)                                                 *)
(***************************************************************************)
\* the entries of callLog: a call of op for book j starts, returns, raises;
\* time.sleep(2) after book j (line 155)
Called(op, j)    == [op |-> op, ev |-> "call", book |-> j]
Returned_(op, j) == [op |-> op, ev |-> "return", book |-> j]
Raised(op, j)    == [op |-> op, ev |-> "raise", book |-> j]
Slept(j)         == [op |-> "sleep", ev |-> "sleep", book |-> j]
\* how the call for book j ended, from its entry of anLog
Ended(op, entry, j) ==
    IF entry.kind = "raised" THEN Raised(op, j) ELSE Returned_(op, j)

\* the parameters of WeReadSearchResult.__init__ (weread_api.py:17-24)
WeReadSearchResultParams ==
    {"book_title", "search_keyword", "found_books", "total_count", "error"}

\* the keyword arguments of the call at main.py:143-149
HandlerKwargs ==
    {"book_title", "search_keyword", "found_books", "error", "attempted_keywords"}

\* run, lines 69-73 and 104-106: get_books_to_check raises
\* (notion_client.py:248-253) and the exception leaves run()
FetchRaises ==
    /\ pc = "fetch"
    /\ exc' = "fetch failed"
    /\ pc' = "raised"
    /\ UNCHANGED <<nf, remote, books, i, genVars, searchVars, anVars, search_results,
                   analysis_results, anLog, stats, message, callLog>>

\* run, lines 69-79, and _search_books_sync up to the first call (110-123)
FetchReturns ==
    /\ pc = "fetch"
    /\ IF Len(books) = 0
       THEN /\ pc' = "done"
            /\ UNCHANGED <<i, kg, callLog>>
       ELSE /\ pc' = "keywords"
            /\ i' = 1
            /\ kg' = LLMFrame(books[1].title, books[1].author)
            /\ callLog' = Append(callLog, Called("generate_search_keywords", 1))
    /\ UNCHANGED <<nf, remote, books, keywords_result, searchVars, anVars,
                   search_results, analysis_results, anLog, stats, message, exc>>

\* the search called without custom_keywords
CallSearchByTitle ==
    /\ pc = "generated"
    /\ sb' = SearchFrame(books[i].title, books[i].author, <<>>)
    /\ search_ret' = <<>>
    /\ reqLog' = <<>>
    /\ kg' = NoLLMFrame
    /\ keywords_result' = <<>>
    /\ pc' = "search"
    /\ callLog' = callLog \o << Returned_("generate_search_keywords", i),
                                Called("search_book", i) >>
    /\ UNCHANGED <<nf, remote, books, anVars, i, search_results, analysis_results,
                   anLog, stats, message, exc>>

\* _search_books_sync, lines 126-130: search with the generated keywords
CallSearch ==
    /\ pc = "generated"
    /\ sb' = SearchFrame(books[i].title, books[i].author,
                         keywords_result[1].keywords)
    /\ search_ret' = <<>>
    /\ reqLog' = <<>>
    /\ kg' = NoLLMFrame
    /\ keywords_result' = <<>>
    /\ pc' = "search"
    /\ callLog' = callLog \o << Returned_("generate_search_keywords", i),
                                Called("search_book", i) >>
    /\ UNCHANGED <<nf, remote, books, anVars, i, search_results, analysis_results,
                   anLog, stats, message, exc>>

\* _analyze_results, lines 161-171: the call for book j
CallAnalyze(j, results) ==
    /\ i' = j
    /\ an' = AnalyzeFrame(books[j].title, results[j], books[j].author)
    /\ analysis_ret' = <<>>
    /\ pc' = "analyze"

\* the sleep not skipped after the last book (i <= len(books))
SearchDoneSleepsAlways ==
    /\ pc = "searched"
    /\ search_results' = Append(search_results, search_ret[1])
    /\ sb' = NoFrame
    /\ search_ret' = <<>>
    /\ reqLog' = <<>>
    /\ IF i < Len(books)
       THEN /\ i' = i + 1
            /\ kg' = LLMFrame(books[i + 1].title, books[i + 1].author)
            /\ pc' = "keywords"
            /\ callLog' = callLog \o
                    << Returned_("search_book", i), Slept(i),
                       Called("generate_search_keywords", i + 1) >>
            /\ UNCHANGED anVars
       ELSE /\ CallAnalyze(1, search_results')
            /\ callLog' = callLog \o
                    << Returned_("search_book", i), Slept(i),
                       Called("analyze_search_result", 1) >>
            /\ UNCHANGED kg
    /\ UNCHANGED <<nf, remote, books, keywords_result, analysis_results, anLog,
                   stats, message, exc>>

\* return search_results inside the for loop: the analysis stage starts
\* after the first book
SearchDoneReturnsEarly ==
    /\ pc = "searched"
    /\ search_results' = Append(search_results, search_ret[1])
    /\ sb' = NoFrame
    /\ search_ret' = <<>>
    /\ reqLog' = <<>>
    /\ CallAnalyze(1, search_results')
    /\ callLog' = callLog \o << Returned_("search_book", i),
                                Called("analyze_search_result", 1) >>
    /\ UNCHANGED <<nf, remote, books, genVars, analysis_results, anLog,
                   stats, message, exc>>

\* _search_books_sync, lines 131-136 and 152-157: keep the result, sleep
\* unless this was the last book, go on with the next book or return to
\* run, which starts _analyze_results (line 83)
SearchDone ==
    /\ pc = "searched"
    /\ search_results' = Append(search_results, search_ret[1])
    /\ sb' = NoFrame
    /\ search_ret' = <<>>
    /\ reqLog' = <<>>
    /\ IF i < Len(books)
       THEN /\ i' = i + 1
            /\ kg' = LLMFrame(books[i + 1].title, books[i + 1].author)
            /\ pc' = "keywords"
            /\ callLog' = callLog \o
                    << Returned_("search_book", i), Slept(i),
                       Called("generate_search_keywords", i + 1) >>
            /\ UNCHANGED anVars
       ELSE /\ CallAnalyze(1, search_results')
            /\ callLog' = callLog \o
                    << Returned_("search_book", i),
                       Called("analyze_search_result", 1) >>
            /\ UNCHANGED kg
    /\ UNCHANGED <<nf, remote, books, keywords_result, analysis_results, anLog,
                   stats, message, exc>>

\* _search_books_sync, lines 138-150: an exception leaves the keyword or
\* the search call of book i.  The handler builds the book's error result
\* with a keyword argument __init__ does not take; that call raises
\* TypeError inside the handler, which leaves _search_books_sync and, by
\* lines 104-106, run().
StageRaises ==
    /\ pc \in {"keywords", "search"}
    /\ IF HandlerKwargs \subseteq WeReadSearchResultParams
       THEN /\ search_ret' = << WeReadSearchResult(books[i].title,
                                    <<books[i].title>>, <<>>, 0, "unexpected") >>
            /\ pc' = "searched"
            /\ exc' = exc
            /\ UNCHANGED <<kg, sb, reqLog>>
       ELSE /\ exc' = "TypeError"            /\ pc' = "raised"
            /\ kg' = NoLLMFrame
            /\ sb' = NoFrame
            /\ reqLog' = <<>>
            /\ UNCHANGED search_ret
    /\ callLog' = Append(callLog,
                     Raised(IF pc = "keywords" THEN "generate_search_keywords"
                                               ELSE "search_book", i))
    /\ UNCHANGED <<nf, remote, books, i, keywords_result, anVars, search_results,
                   analysis_results, anLog, stats, message>>

\* _analyze_results, lines 163 and 198, and _update_notion's entry
\* (lines 207-212): the next book, or the next stage
NextAnalysis(results, entry) ==
    /\ analysis_results' = analysis_results \o results
    /\ anLog' = Append(anLog, entry)
    /\ IF i < Len(books)
       THEN /\ CallAnalyze(i + 1, search_results)
            /\ callLog' = callLog \o
                    << Ended("analyze_search_result", entry, i),
                       Called("analyze_search_result", i + 1) >>
            /\ UNCHANGED stats
       ELSE /\ i' = 1
            /\ stats' = [success |-> 0, failed |-> 0]
            /\ pc' = "update"
            /\ an' = NoAnalyzeFrame
            /\ analysis_ret' = <<>>
            /\ callLog' = Append(callLog,
                                 Ended("analyze_search_result", entry, i))

\* lines 174-175: f"{result.confidence:.2f}" is evaluated for an available
\* result, and raises when the confidence is None
FormatRaises(result) == result.is_available /\ result.confidence = NoneNum

\* lines 188-196: the result the handler builds from the exception e
HandlerResult(book_title, e) ==
    BookAnalysisResult(book_title, FALSE, 0, "analysis failed: " \o e, e)

\* _analyze_results, lines 172-182: keep the result (line 172) and log it;
\* when the logging raises, the handler of lines 184-196 appends its own
\* result after the one already kept
AnalyzeDone ==
    /\ pc = "analyzed"
    /\ NextAnalysis(IF FormatRaises(analysis_ret[1])
                    THEN << analysis_ret[1],
                            HandlerResult(books[i].title, "format error") >>
                    ELSE << analysis_ret[1] >>,
                    an.outcome)
    /\ UNCHANGED <<nf, remote, books, genVars, searchVars, search_results, message, exc>>

\* _analyze_results, lines 184-196: an exception leaves the call for book i
AnalyzeRaises ==
    /\ pc = "analyze"
    /\ NextAnalysis(<< HandlerResult(books[i].title, "unexpected") >>,
                    [kind |-> "raised", d |-> <<>>])
    /\ UNCHANGED <<nf, remote, books, genVars, searchVars, search_results, message, exc>>

\* _update_notion, lines 212-238, one book.  WeReadSearchResult has no
\* attribute attempted_keywords (weread_api.py:25-33): line 222 raises
\* AttributeError, which line 236 catches.
\* lines 215-219: reasoning if truthy, else the error if truthy, else None;
\* "error: " stands for the prefix of line 219
Notes(analysis_result) ==
    IF TruthyStr(analysis_result.reasoning) THEN analysis_result.reasoning
    ELSE IF TruthyStr(analysis_result.error)
         THEN "error: " \o analysis_result.error
         ELSE None

\* lines 224-229: the call of update_book_status for book j
UpdateCall(j) ==
    [op |-> "update_book_status", ev |-> "call", book |-> j,
     available |-> analysis_results[j].is_available,
     search_keywords |-> search_results[j].attempted_keywords,
     notes |-> Notes(analysis_results[j])]

\* the handler around the loop instead of inside it: the first exception
\* is counted and ends the stage
UpdateBookBreaks ==
    /\ pc = "update"
    /\ IF "attempted_keywords" \in DOMAIN search_results[i]
       THEN /\ callLog' = Append(callLog, UpdateCall(i))
            /\ \E success \in BOOLEAN :
                  stats' = IF success
                           THEN [stats EXCEPT !.success = @ + 1]
                           ELSE [stats EXCEPT !.failed = @ + 1]
            /\ IF i < Len(books)
               THEN i' = i + 1 /\ pc' = pc
               ELSE i' = i /\ pc' = "notify"
       ELSE /\ callLog' = callLog
            /\ stats' = [stats EXCEPT !.failed = @ + 1]
            /\ i' = i /\ pc' = "notify"
    /\ UNCHANGED <<nf, remote, books, genVars, searchVars, anVars, search_results,
                   analysis_results, anLog, message, exc>>

UpdateBook ==
    /\ pc = "update"
    /\ IF "attempted_keywords" \in DOMAIN search_results[i]
       THEN /\ callLog' = Append(callLog, UpdateCall(i))
            /\ \E success \in BOOLEAN :
                  stats' = IF success
                           THEN [stats EXCEPT !.success = @ + 1]
                           ELSE [stats EXCEPT !.failed = @ + 1]
       ELSE /\ callLog' = callLog
            /\ stats' = [stats EXCEPT !.failed = @ + 1]
    /\ IF i < Len(books)
       THEN i' = i + 1 /\ pc' = pc
       ELSE i' = i /\ pc' = "notify"
    /\ UNCHANGED <<nf, remote, books, genVars, searchVars, anVars, search_results,
                   analysis_results, anLog, message, exc>>

(***************************************************************************)
(* NotificationMessage (notifier.py:12-29) and                             *)
(* BookFinderApp._send_notification (main.py:243-285)                      *)
(***************************************************************************)
\* enumerate(s, 1): the indices of s, in order
Enumerate(s) == [j \in 1..Len(s) |-> j]

\* available_books counted with the threshold of newly_available
MessageCountsConfident(bs, results) ==
    LET available_books == Cardinality({j \in 1..Len(results) :
                                            /\ results[j].is_available
                                            /\ results[j].confidence > 70})
        IsNew(j)    == j <= Len(results) /\ results[j].is_available
                                         /\ results[j].confidence > 70
        HasError(j) == j <= Len(results) /\ TruthyStr(results[j].error)
        new         == SelectSeq(Enumerate(bs), IsNew)
        failed      == SelectSeq(Enumerate(bs), HasError)
    IN  [ total_books       |-> Len(bs),
          available_books   |-> available_books,
          unavailable_books |-> Len(bs) - available_books,
          newly_available   |-> [j \in 1..Len(new) |->
                                    [title  |-> bs[new[j]].title,
                                     author |-> IF TruthyStr(bs[new[j]].author)
                                                THEN bs[new[j]].author ELSE ""]],
          failed_books      |-> [j \in 1..Len(failed) |->
                                    [title |-> bs[failed[j]].title,
                                     error |-> results[failed[j]].error]] ]

\* failed_books filled with the books that are not available
MessageFailedIsUnavailable(bs, results) ==
    LET available_books == Cardinality({j \in 1..Len(results) :
                                            results[j].is_available})
        IsNew(j)    == j <= Len(results) /\ results[j].is_available
                                         /\ results[j].confidence > 70
        HasError(j) == j <= Len(results) /\ ~results[j].is_available
        new         == SelectSeq(Enumerate(bs), IsNew)
        failed      == SelectSeq(Enumerate(bs), HasError)
    IN  [ total_books       |-> Len(bs),
          available_books   |-> available_books,
          unavailable_books |-> Len(bs) - available_books,
          newly_available   |-> [j \in 1..Len(new) |->
                                    [title  |-> bs[new[j]].title,
                                     author |-> IF TruthyStr(bs[new[j]].author)
                                                THEN bs[new[j]].author ELSE ""]],
          failed_books      |-> [j \in 1..Len(failed) |->
                                    [title |-> bs[failed[j]].title,
                                     error |-> results[failed[j]].error]] ]

\* confidence >= 0.7 for confidence > 0.7
MessageAtThreshold(bs, results) ==
    LET available_books == Cardinality({j \in 1..Len(results) :
                                            results[j].is_available})
        IsNew(j)    == j <= Len(results) /\ results[j].is_available
                                         /\ results[j].confidence >= 70
        HasError(j) == j <= Len(results) /\ TruthyStr(results[j].error)
        new         == SelectSeq(Enumerate(bs), IsNew)
        failed      == SelectSeq(Enumerate(bs), HasError)
    IN  [ total_books       |-> Len(bs),
          available_books   |-> available_books,
          unavailable_books |-> Len(bs) - available_books,
          newly_available   |-> [j \in 1..Len(new) |->
                                    [title  |-> bs[new[j]].title,
                                     author |-> IF TruthyStr(bs[new[j]].author)
                                                THEN bs[new[j]].author ELSE ""]],
          failed_books      |-> [j \in 1..Len(failed) |->
                                    [title |-> bs[failed[j]].title,
                                     error |-> results[failed[j]].error]] ]

\* lines 251-282
NotificationMessage(bs, results) ==
    LET available_books == Cardinality({j \in 1..Len(results) :
                                            results[j].is_available})
        IsNew(j)    == j <= Len(results) /\ results[j].is_available
                                         /\ results[j].confidence > 70
        HasError(j) == j <= Len(results) /\ TruthyStr(results[j].error)
        new         == SelectSeq(Enumerate(bs), IsNew)
        failed      == SelectSeq(Enumerate(bs), HasError)
    IN  [ total_books       |-> Len(bs),
          available_books   |-> available_books,
          unavailable_books |-> Len(bs) - available_books,
          newly_available   |-> [j \in 1..Len(new) |->
                                    [title  |-> bs[new[j]].title,
                                     author |-> IF TruthyStr(bs[new[j]].author)
                                                THEN bs[new[j]].author ELSE ""]],
          failed_books      |-> [j \in 1..Len(failed) |->
                                    [title |-> bs[failed[j]].title,
                                     error |-> results[failed[j]].error]] ]

\* line 258, over zip(books, analysis_results): result.confidence > 0.7 is
\* evaluated for an available result, and raises TypeError when the
\* confidence is None
CompareRaises(bs, results) ==
    \E j \in 1..Len(bs) :
        /\ j <= Len(results)
        /\ results[j].is_available
        /\ results[j].confidence = NoneNum

\* run, line 91: the summary is built and sent, or the TypeError leaves
\* _send_notification and run() (lines 104-106)
SendNotification ==
    /\ pc = "notify"
    /\ IF CompareRaises(books, analysis_results)
       THEN /\ message' = message
            /\ exc' = "TypeError"
            /\ pc' = "raised"
       ELSE /\ message' = << NotificationMessage(books, analysis_results) >>
            /\ exc' = exc
            /\ pc' = "done"
    /\ UNCHANGED <<nf, remote, books, i, genVars, searchVars, anVars, search_results,
                   analysis_results, anLog, stats, callLog>>

(***************************************************************************)
(* LLMAnalyzer.batch_analyze (llm_analyzer.py:380-407).  Its books are     *)
(* dicts; results is kept in analysis_results.                             *)
(***************************************************************************)
\* lines 400-404: analyze_search_result is called for the j-th pair
CallAnalyzeOfBatch(j) ==
    /\ i' = j
    /\ an' = AnalyzeFrame(Get(books[j], "title", ""), search_results[j],
                          Get(books[j], "author", None))
    /\ analysis_ret' = <<>>
    /\ callLog' = Append(callLog, Called("analyze_search_result", j))
    /\ pc' = "analyze"

\* zip(books, search_results), line 399: as many pairs as the shorter list
ZipLen == IF Len(books) <= Len(search_results) THEN Len(books)
                                               ELSE Len(search_results)

\* the lengths are not compared
BatchCheckZips ==
    /\ pc = "batch"
    /\ IF ZipLen = 0
       THEN /\ pc' = "batch_done"
            /\ UNCHANGED <<i, anVars, callLog>>
       ELSE CallAnalyzeOfBatch(1)
    /\ UNCHANGED <<nf, remote, books, genVars, searchVars, search_results,
                   analysis_results, anLog, stats, message, exc>>

\* lines 395-399: the lengths are compared, then the loop is entered
BatchCheck ==
    /\ pc = "batch"
    /\ IF Len(books) # Len(search_results)
       THEN /\ exc' = "ValueError"
            /\ pc' = "raised"
            /\ UNCHANGED <<i, anVars, callLog>>
       ELSE /\ exc' = exc
            /\ IF ZipLen = 0
               THEN /\ pc' = "batch_done"
                    /\ UNCHANGED <<i, anVars, callLog>>
               ELSE CallAnalyzeOfBatch(1)
    /\ UNCHANGED <<nf, remote, books, genVars, searchVars, search_results,
                   analysis_results, anLog, stats, message>>

\* lines 405, 399 and 407: the result is appended; the next pair, or return
BatchNext ==
    /\ pc = "analyzed"
    /\ analysis_results' = Append(analysis_results, analysis_ret[1])
    /\ IF i < ZipLen
       THEN CallAnalyzeOfBatch(i + 1)
       ELSE /\ pc' = "batch_done"
            /\ an' = NoAnalyzeFrame
            /\ analysis_ret' = <<>>
            /\ UNCHANGED <<i, callLog>>
    /\ UNCHANGED <<nf, remote, books, genVars, searchVars, search_results,
                   anLog, stats, message, exc>>

batch_analyze ==
    BatchCheck \/ AnalyzeAnswer \/ AnalyzeFail \/ BatchNext

(***************************************************************************)
(* Notifier (notifier.py:156-250), called at main.py:285.  The value it    *)
(* returns is dropped there, so SendNotification tells all a run keeps of  *)
(* the call; the call itself is followed under SpecSend.                   *)
(***************************************************************************)
\* NotificationConfig (config.py:42-46)
NotificationConfig(wecom_webhook, feishu_webhook, enabled_channels) ==
    [wecom_webhook |-> wecom_webhook, feishu_webhook |-> feishu_webhook,
     enabled_channels |-> enabled_channels]

\* the channels send knows (lines 237, 241)
KnownChannels == {"wecom", "feishu"}

\* send, line 232, with the configuration of the notifier
SendFrame(config) ==
    [config |-> config, at |-> "wecom", results |-> <<>>,
     calls |-> <<>>, posts |-> <<>>]

NoSendFrame ==
    [config |-> NotificationConfig(None, None, {}), at |-> "idle",
     results |-> <<>>, calls |-> <<>>, posts |-> <<>>]

\* what requests.post does: it raises, or it returns a response with a
\* status and a body (the value json() decodes it to)
PostRaised == [raised |-> TRUE, status |-> 0, body |-> Undecodable]
Response(status, body) == [raised |-> FALSE, status |-> status, body |-> body]

\* send_wecom, lines 158-187
send_wecom(webhook, response) ==
    IF ~TruthyStr(webhook) THEN FALSE
    ELSE IF response.raised THEN FALSE
    ELSE IF response.status = 200
         THEN IF response.body.type = "dict"
              THEN Get(response.body.d, "errcode", NoneNum) = 0
              ELSE FALSE      \* json() or .get raises, line 185
         ELSE FALSE

\* send_feishu, lines 191-220
send_feishu(webhook, response) ==
    IF ~TruthyStr(webhook) THEN FALSE
    ELSE IF response.raised THEN FALSE
    ELSE IF response.status = 200
         THEN IF response.body.type = "dict"
              THEN \/ Get(response.body.d, "code", NoneNum) = 0
                   \/ Get(response.body.d, "StatusCode", NoneNum) = 0
              ELSE FALSE      \* json() or .get raises, line 218
         ELSE FALSE

\* results[key] = v
Put(d, key, v) == [k \in DOMAIN d \cup {key} |-> IF k = key THEN v ELSE d[k]]

\* lines 237-238 and 241-242: the channel is attempted when it is enabled;
\* the request is posted when the channel has a webhook
SendTo(channel, next) ==
    LET webhook == IF channel = "wecom" THEN nf.config.wecom_webhook
                                        ELSE nf.config.feishu_webhook
    IN  IF channel \in nf.config.enabled_channels
        THEN IF TruthyStr(webhook)
             THEN \E response \in remote.responses :
                    nf' = [nf EXCEPT
                             !.at = next,
                             !.calls = Append(@, channel),
                             !.posts = Append(@, [channel |-> channel,
                                                  response |-> response]),
                             !.results = Put(@, channel,
                                 IF channel = "wecom"
                                 THEN send_wecom(webhook, response)
                                 ELSE send_feishu(webhook, response))]
             ELSE nf' = [nf EXCEPT !.at = next,
                                   !.calls = Append(@, channel),
                                   !.results = Put(@, channel, FALSE)]
        ELSE nf' = [nf EXCEPT !.at = next]

SendWecom ==
    /\ pc = "send" /\ nf.at = "wecom"
    /\ SendTo("wecom", "feishu")
    /\ UNCHANGED <<remote, books, pc, genVars, searchVars, anVars, runVars>>

\* the second channel is left out once a delivery has failed
SendFeishuUnlessFailed ==
    /\ pc = "send" /\ nf.at = "feishu"
    /\ IF \E ch \in DOMAIN nf.results : ~nf.results[ch]
       THEN nf' = [nf EXCEPT !.at = "return"]
       ELSE SendTo("feishu", "return")
    /\ UNCHANGED <<remote, books, pc, genVars, searchVars, anVars, runVars>>

SendFeishu ==
    /\ pc = "send" /\ nf.at = "feishu"
    /\ SendTo("feishu", "return")
    /\ UNCHANGED <<remote, books, pc, genVars, searchVars, anVars, runVars>>

\* line 250, and back in run(): main.py:285 and 93-102
SendReturns ==
    /\ pc = "send" /\ nf.at = "return"
    /\ nf' = [nf EXCEPT !.at = "returned"]
    /\ pc' = "done"
    /\ UNCHANGED <<remote, books, genVars, searchVars, anVars, runVars>>

send == SendWecom \/ SendFeishu \/ SendReturns

(***************************************************************************)
(* main (main.py:288-304)                                                  *)
(***************************************************************************)
\* the status the process exits with once app.run() is over: sys.exit(1)
\* when an Exception left run() (lines 302-304), 0 otherwise
ExitStatus == IF exc # None THEN 1 ELSE 0

(***************************************************************************)
(* What the environment may do                                             *)
(***************************************************************************)
\* one provider record (weread_api.py:119-123)
Record(book_id, book_status, soldout) ==
    [bookInfo |-> [bookId |-> book_id, bookStatus |-> book_status,
                   soldout |-> soldout]]

Body(records, total_count) == [books |-> records, totalCount |-> total_count]

\* the bodies of a run: no book, a readable one, one pending release
RunBodies ==
    { Body(<<>>, 0),
      Body(<< Record("b1", 1, 0) >>, 1),
      Body(<< Record("b2", 5, 0) >>, 1) }

Keywords(items) == Dict([keywords |-> [list |-> TRUE, items |-> items]])

\* the j-th keyword the remote model writes
Keyword(j) == << CASE j = 1 -> "k1" [] j = 2 -> "k2" [] j = 3 -> "k3"
                   [] j = 4 -> "k4" [] j = 5 -> "k5" [] OTHER -> "k6" >>
KeywordList(n) == [j \in 1..n |-> Keyword(j)]

\* the texts for a keyword prompt: two keywords; an empty list; no JSON
RunKeywordTexts ==
    { PlainText(Keywords(KeywordList(2))),
      PlainText(Keywords(<<>>)),
      Garbage }

Answer(is_available, confidence) ==
    Dict([is_available |-> is_available, confidence |-> confidence,
          reasoning |-> "judged"])

\* the texts for a judgment prompt
RunAnswerTexts ==
    { PlainText(Answer(TRUE, 90)),
      PlainText(Answer(FALSE, 0)) }

\* the books of the record store
Book(title, author) == [title |-> title, author |-> author]
\* a batch of n books: with and without an author, in turn
Batch(n) == [j \in 1..n |-> IF j % 2 = 1 THEN Book("Sapiens", "Harari")
                                         ELSE Book("Dune", None)]

Batches == { Batch(n) : n \in 0..MaxBooks }

(***************************************************************************)
(* BookFinderApp.run (main.py:58-106)                                      *)
(***************************************************************************)
IdleGen     == kg = NoLLMFrame /\ keywords_result = <<>>
IdleSearch  == sb = NoFrame /\ search_ret = <<>> /\ reqLog = <<>>
IdleAnalyze == an = NoAnalyzeFrame /\ analysis_ret = <<>>
IdleSend    == nf = NoSendFrame
IdleRun ==
    /\ i = 0
    /\ search_results = <<>>
    /\ analysis_results = <<>>
    /\ anLog = <<>>
    /\ stats = [success |-> 0, failed |-> 0]
    /\ message = <<>>
    /\ exc = None
    /\ callLog = <<>>

Init ==
    /\ remote = [bodies |-> RunBodies, kw_texts |-> RunKeywordTexts,
                 an_texts |-> RunAnswerTexts,
                 search_errors |-> {"HTTP 500"}, llm_errors |-> {ApiError},
                 responses |-> {}]
    /\ books \in Batches
    /\ pc = "fetch"
    /\ IdleRun /\ IdleGen /\ IdleSearch /\ IdleAnalyze /\ IdleSend

Next ==
    \/ FetchRaises
    \/ FetchReturns
    \/ GenAnswer
    \/ GenFail
    \/ CallSearch
    \/ SearchFound
    \/ SearchEmpty
    \/ SearchFail
    \/ StageRaises
    \/ SearchDone
    \/ AnalyzeAnswer
    \/ AnalyzeFail
    \/ AnalyzeRaises
    \/ AnalyzeDone
    \/ UpdateBook
    \/ SendNotification

Spec == Init /\ [][Next]_vars

(***************************************************************************)
(* The whole run, the reasoning call answering with a JSON null where a    *)
(* number is asked for                                                     *)
(***************************************************************************)
\* a judgment with "confidence": null, available or not; a plain judgment
NullAnswerTexts ==
    { PlainText(Answer(TRUE, NoneNum)),
      PlainText(Answer(FALSE, NoneNum)),
      PlainText(Answer(TRUE, 90)) }

InitAnswers ==
    /\ remote = [bodies |-> { Body(<<>>, 0), Body(<< Record("b1", 1, 0) >>, 1) },
                 kw_texts |-> { PlainText(Keywords(KeywordList(1))) },
                 an_texts |-> NullAnswerTexts,
                 search_errors |-> {"HTTP 500"}, llm_errors |-> {ApiError},
                 responses |-> {}]
    /\ books \in Batches
    /\ pc = "fetch"
    /\ IdleRun /\ IdleGen /\ IdleSearch /\ IdleAnalyze /\ IdleSend

SpecAnswers == InitAnswers /\ [][Next]_vars

(***************************************************************************)
(* One call of WeReadAPIClient.search_book, with any arguments             *)
(***************************************************************************)
Authors == {None, "", "Harari"}

\* the ids of a long answer, in the provider's order
LongIds == << "r01", "r02", "r03", "r04", "r05", "r06", "r07", "r08", "r09",
              "r10", "r11", "r12" >>

\* a body with a book and totalCount 0; a body without totalCount; a body
\* without books; a body with more records than found_books keeps, the
\* readable one among them behind a record that is pending release
SearchBodies ==
    RunBodies \cup
    { Body(<< Record("b2", 5, 0), Record("b1", 1, 0) >>, 0),
      [books |-> << Record("b3", 2, 0) >>],
      [totalCount |-> 3],
      Body([j \in 1..Len(LongIds) |->
                Record(LongIds[j], IF j = 2 THEN 1 ELSE 5, 0)], 40) }

InitSearch ==
    /\ remote = [bodies |-> SearchBodies, kw_texts |-> {}, an_texts |-> {},
                 search_errors |-> SearchErrors, llm_errors |-> {},
                 responses |-> {}]
    /\ books = <<>>
    /\ pc = "search"
    /\ \E author \in Authors, n \in 0..MaxKeywords :
          sb = SearchFrame("Sapiens", author, KeywordList(n))
    /\ search_ret = <<>>
    /\ reqLog = <<>>
    /\ IdleRun /\ IdleGen /\ IdleAnalyze /\ IdleSend

SpecSearch == InitSearch /\ [][search_book]_vars

(***************************************************************************)
(* One call of search_book for one keyword, with any pair of status flags  *)
(* in the record the endpoint answers with                                 *)
(***************************************************************************)
\* a missing key is <<>>, a key with value v is <<v>>
StatusFlags  == {<<>>, <<NoneNum>>, <<0>>, <<1>>, <<2>>, <<5>>}
SoldoutFlags == {<<>>, <<NoneNum>>, <<0>>, <<1>>, <<2>>}

BookInfo(book_status, soldout) ==
    [key \in {"bookId"}
             \cup (IF book_status = <<>> THEN {} ELSE {"bookStatus"})
             \cup (IF soldout = <<>> THEN {} ELSE {"soldout"})
        |-> IF key = "bookStatus" THEN book_status[1]
            ELSE IF key = "soldout" THEN soldout[1]
            ELSE "b1"]

StatusBodies ==
    { Body(<<>>, 0) } \cup
    { Body(<< [bookInfo |-> BookInfo(bs, so)] >>, 1) :
        bs \in StatusFlags, so \in SoldoutFlags }

InitStatus ==
    /\ remote = [bodies |-> StatusBodies, kw_texts |-> {}, an_texts |-> {},
                 search_errors |-> SearchErrors, llm_errors |-> {},
                 responses |-> {}]
    /\ books = <<>>
    /\ pc = "search"
    /\ sb = SearchFrame("Sapiens", None, KeywordList(1))
    /\ search_ret = <<>>
    /\ reqLog = <<>>
    /\ IdleRun /\ IdleGen /\ IdleAnalyze /\ IdleSend

SpecStatus == InitStatus /\ [][search_book]_vars

(***************************************************************************)
(* One call of LLMAnalyzer.generate_search_keywords, with any arguments    *)
(***************************************************************************)
\* the prompt asks for 3-5 keywords (llm_analyzer.py:536)
AskedKeywords == 5

\* what the text may decode to: a keyword list of any length, one keyword
\* more than the prompt asks for, a dict without keywords, a dict whose
\* keywords are a str, no dict
KeywordValues ==
    { Keywords(KeywordList(n)) : n \in 0..MaxKeywords } \cup
    { Keywords(KeywordList(AskedKeywords + 1)),
      Dict([reasoning |-> "none"]),
      Dict([keywords |-> [list |-> FALSE, items |-> KeywordList(1)]]),
      OtherJson }

KeywordTexts ==
    { PlainText(v) : v \in KeywordValues } \cup
    { FencedText(v) : v \in KeywordValues } \cup
    { BracedText(v) : v \in KeywordValues } \cup
    { Garbage }

InitGen ==
    /\ remote = [bodies |-> {}, kw_texts |-> KeywordTexts, an_texts |-> {},
                 search_errors |-> {}, llm_errors |-> LLMErrors,
                 responses |-> {}]
    /\ books = <<>>
    /\ pc = "keywords"
    /\ \E author \in Authors : kg = LLMFrame("Sapiens", author)
    /\ keywords_result = <<>>
    /\ IdleRun /\ IdleSearch /\ IdleAnalyze /\ IdleSend

SpecGen == InitGen /\ [][generate_search_keywords]_vars

(***************************************************************************)
(* One call of LLMAnalyzer.analyze_search_result, with any arguments       *)
(***************************************************************************)
\* what search_book may have returned: a readable book, a book pending
\* release, no book after empty answers, no book after a failure
SearchOutcomes ==
    { WeReadSearchResult("Sapiens", Keyword(1),
                         FoundBooks(<< Record("b1", 1, 0) >>), 1, None),
      WeReadSearchResult("Sapiens", Keyword(2),
                         FoundBooks(<< Record("b2", 5, 0) >>), 1, None),
      WeReadSearchResult("Sapiens", Keyword(1), <<>>, 0, "no results"),
      WeReadSearchResult("Sapiens", Keyword(1), <<>>, 0, "HTTP 500") }

\* what the text may decode to: a judgment, a judgment whose confidence
\* is the JSON number 1.5, a dict without the keys of a judgment, no dict
AnswerValues ==
    { Answer(TRUE, 90), Answer(TRUE, 70), Answer(FALSE, 0),
      Answer(TRUE, 150), Dict([reasoning |-> "none"]), OtherJson }

AnswerTexts ==
    { PlainText(v) : v \in AnswerValues } \cup
    { FencedText(Answer(TRUE, 90)), BracedText(Answer(FALSE, 0)), Garbage,
      PlainText(TooDeep) }

InitAnalyze ==
    /\ remote = [bodies |-> {}, kw_texts |-> {}, an_texts |-> AnswerTexts,
                 search_errors |-> {}, llm_errors |-> LLMErrors,
                 responses |-> {}]
    /\ books = <<>>
    /\ pc = "analyze"
    /\ \E author \in Authors, search_result \in SearchOutcomes :
          an = AnalyzeFrame("Sapiens", search_result, author)
    /\ analysis_ret = <<>>
    /\ IdleRun /\ IdleGen /\ IdleSearch /\ IdleSend

SpecAnalyze == InitAnalyze /\ [][analyze_search_result]_vars

(***************************************************************************)
(* One call of _parse_llm_response (llm_analyzer.py:233-272) on a text.    *)
(* The text is kg.result_text, the returned value keywords_result.         *)
(***************************************************************************)
\* what a decoder may make of a text or of a part of it
ParseValues ==
    { Answer(TRUE, 90), Answer(FALSE, 0),
      Dict([keywords |-> [list |-> TRUE, items |-> << <<"Sapiens">> >>]]),
      Dict(<<>>), OtherJson, Undecodable, TooDeep }

\* The texts.  A text that is a JSON object starts with '{' and ends with
\* '}', so the span between the braces is the whole text; that span never
\* decodes to anything but an object; a fenced block that is an object
\* has braces.  A fence inside the span between the braces is inside a
\* JSON string when that span decodes, and the only object written
\* without a quote is {}: the fenced block and the span decode to two
\* different objects only if the block is {}.
ParseTexts ==
    { t \in [strict : ParseValues, fence : BOOLEAN, fenced : ParseValues,
             brace : BOOLEAN, braced : ParseValues] :
        /\ t.strict.type = "dict" => t.brace /\ t.braced = t.strict
        /\ t.braced.type # "other"
        /\ ~t.fence => t.fenced = Undecodable
        /\ ~t.brace => t.braced = Undecodable
        /\ t.fenced.type = "dict" => t.brace
        /\ t.fenced.type = "dict" /\ t.braced.type = "dict" =>
              t.fenced = t.braced \/ t.fenced = Dict(<<>>)
        /\ t.fenced.type = "dict" /\ t.strict.type = "dict" =>
              t.fenced = Dict(<<>>) }

InitParse ==
    /\ remote = [bodies |-> {}, kw_texts |-> ParseTexts, an_texts |-> ParseTexts,
                 search_errors |-> {}, llm_errors |-> {}, responses |-> {}]
    /\ books = <<>>
    /\ pc = "parse"
    /\ \E response_text \in ParseTexts :
          kg = [NoLLMFrame EXCEPT !.result_text = <<response_text>>]
    /\ keywords_result = <<>>
    /\ IdleRun /\ IdleSearch /\ IdleAnalyze /\ IdleSend

\* lines 233-272: the call returns, or raises what json.loads raised
ParseLLMResponse ==
    /\ pc = "parse"
    /\ LET result == _parse_llm_response(kg.result_text[1])
       IN  IF result.type = "raises"
           THEN /\ exc' = "RecursionError"
                /\ pc' = "raised"
                /\ UNCHANGED keywords_result
           ELSE /\ keywords_result' = << result >>
                /\ pc' = "parsed"
                /\ UNCHANGED exc
    /\ UNCHANGED <<nf, remote, books, kg, searchVars, anVars, i,
                   search_results, analysis_results, anLog, stats, message,
                   callLog>>

SpecParse == InitParse /\ [][ParseLLMResponse]_vars

(***************************************************************************)
(* One call of either method of LLMAnalyzer that retries a remote call     *)
(***************************************************************************)
InitLLM == InitGen \/ InitAnalyze

SpecLLM ==
    InitLLM /\ [][generate_search_keywords \/ analyze_search_result]_vars

(***************************************************************************)
(* One call of BookFinderApp._send_notification, as run() makes it: with   *)
(* at least one book and one result per book (main.py:71-73, 83, 91)       *)
(***************************************************************************)
\* the j-th book of a batch whose titles all differ
ShelfBook(j) ==
    CASE j = 1 -> Book("Sapiens", "Harari")
      [] j = 2 -> Book("Dune", None)
      [] j = 3 -> Book("Emma", "")
      [] OTHER -> Book("Ulysses", "Joyce")

\* the verdicts of one book: judged available above, just above and at
\* the threshold of 0.7, judged unavailable with a high and with no
\* confidence, not judged because every attempt failed or the call raised
BookVerdicts(title) ==
    { BookAnalysisResult(title, TRUE, 90, "judged", None),
      BookAnalysisResult(title, TRUE, 71, "judged", None),
      BookAnalysisResult(title, TRUE, 70, "judged", None),
      BookAnalysisResult(title, FALSE, 90, "judged", None),
      BookAnalysisResult(title, FALSE, 0, "judged", None),
      FailedResult(title, ApiError),
      BookAnalysisResult(title, FALSE, 0, "analysis failed: unexpected",
                         "unexpected") }

InitNotify ==
    /\ remote = [bodies |-> {}, kw_texts |-> {}, an_texts |-> {},
                 search_errors |-> {}, llm_errors |-> {},
                 responses |-> {}]
    /\ \E n \in 1..MaxBooks :
          /\ books = [j \in 1..n |-> ShelfBook(j)]
          /\ analysis_results \in
                {r \in [1..n -> UNION {BookVerdicts(ShelfBook(j).title) : j \in 1..n}] :
                    \A j \in 1..n : r[j].book_title = ShelfBook(j).title}
    /\ pc = "notify"
    /\ i = 0
    /\ search_results = <<>>
    /\ anLog = <<>>
    /\ stats = [success |-> 0, failed |-> 0]
    /\ message = <<>>
    /\ exc = None
    /\ callLog = <<>>
    /\ IdleGen /\ IdleSearch /\ IdleAnalyze /\ IdleSend

SpecNotify == InitNotify /\ [][SendNotification]_vars

(***************************************************************************)
(* One call of Notifier.send, as _send_notification makes it               *)
(* (main.py:285), with any configuration of the channels, and the end of   *)
(* run() behind it                                                         *)
(***************************************************************************)
\* a webhook: not set, set to the empty string, set
Webhooks == {None, "", "https://hook"}

\* enabled_channels, as the set of its entries ("mail" is no channel send
\* knows); an empty list and None give the same [] at line 234
Configs ==
    { NotificationConfig(w, f, e) :
        w \in Webhooks, f \in Webhooks, e \in SUBSET {"wecom", "feishu", "mail"} }

\* the request fails; the status is not 200; the status is 200 and the
\* body says success in the words of either service, says failure, is
\* JSON but no object, is no JSON
Responses ==
    { PostRaised, Response(500, Undecodable) } \cup
    { Response(200, body) :
        body \in { Dict([errcode |-> 0]), Dict([errcode |-> 93000]),
                   Dict([code |-> 0]), Dict([StatusCode |-> 0]),
                   Dict([code |-> 19001]), OtherJson, Undecodable } }

InitSend ==
    /\ remote = [bodies |-> {}, kw_texts |-> {}, an_texts |-> {},
                 search_errors |-> {}, llm_errors |-> {},
                 responses |-> Responses]
    /\ books = Batch(1)
    /\ pc = "send"
    /\ i = 1
    /\ search_results = <<>>
    /\ analysis_results =
          << BookAnalysisResult(Batch(1)[1].title, TRUE, 90, "judged", None) >>
    /\ anLog = <<>>
    /\ stats = [success |-> 0, failed |-> 1]
    /\ message = << NotificationMessage(books, analysis_results) >>
    /\ exc = None
    /\ callLog = <<>>
    /\ \E config \in Configs : nf = SendFrame(config)
    /\ IdleGen /\ IdleSearch /\ IdleAnalyze

SpecSend == InitSend /\ [][send]_vars

(***************************************************************************)
(* One call of LLMAnalyzer.batch_analyze, with two lists of any lengths    *)
(***************************************************************************)
\* the j-th book of the list: a dict with both keys, without "author",
\* without "title"
DictBook(j) ==
    CASE j % 3 = 1 -> [title |-> "Sapiens", author |-> "Harari"]
      [] j % 3 = 2 -> [title |-> "Dune"]
      [] OTHER     -> [author |-> "Joyce"]

\* the j-th search result of the list: with a readable book, without a book
BatchOutcome(j) ==
    IF j % 2 = 1
    THEN WeReadSearchResult("Sapiens", Keyword(1),
                            FoundBooks(<< Record("b1", 1, 0) >>), 1, None)
    ELSE WeReadSearchResult("Dune", Keyword(1), <<>>, 0, "no results")

InitBatch ==
    /\ remote = [bodies |-> {}, kw_texts |-> {},
                 an_texts |-> RunAnswerTexts \cup {Garbage},
                 search_errors |-> {}, llm_errors |-> LLMErrors,
                 responses |-> {}]
    /\ \E n \in 0..MaxBooks, m \in 0..MaxBooks :
          /\ books = [j \in 1..n |-> DictBook(j)]
          /\ search_results = [j \in 1..m |-> BatchOutcome(j)]
    /\ pc = "batch"
    /\ i = 0
    /\ analysis_results = <<>>
    /\ anLog = <<>>
    /\ stats = [success |-> 0, failed |-> 0]
    /\ message = <<>>
    /\ exc = None
    /\ callLog = <<>>
    /\ IdleGen /\ IdleSearch /\ IdleAnalyze /\ IdleSend

SpecBatch == InitBatch /\ [][batch_analyze]_vars

(***************************************************************************)
(* Properties                                                              *)
(***************************************************************************)
Returned(ret) == ret # <<>>

\* the requests of reqLog that failed
Failures == {a \in 1..Len(reqLog) : reqLog[a].res = "fail"}

Last(S) == CHOOSE a \in S : \A b \in S : b <= a

\* C1: search_book tries the keywords in list order and short-circuits.
\* The requests go through the keywords in list order, starting with the
\* first and skipping none; a request that is answered with at least one
\* book is the last request of the call: the call has returned, with that
\* keyword and a non-empty found_books, so no later keyword is requested.
C1_ShortCircuit ==
    pc \in {"search", "searched"} =>
        /\ \A a \in 1..Len(reqLog) :
              /\ reqLog[a].kw \in 1..Len(sb.search_keywords)
              /\ a = 1 => reqLog[a].kw = 1
              /\ a > 1 => reqLog[a].kw \in {reqLog[a - 1].kw, reqLog[a - 1].kw + 1}
              /\ a > 1 /\ reqLog[a - 1].res = "empty"
                    => reqLog[a].kw = reqLog[a - 1].kw + 1
        /\ \A a \in 1..Len(reqLog) :
              reqLog[a].res = "found" =>
                  /\ a = Len(reqLog)
                  /\ pc = "searched"
                  /\ Returned(search_ret)
                  /\ search_ret[1].search_keyword = sb.search_keywords[reqLog[a].kw]
                  /\ search_ret[1].found_books # <<>>

\* the keywords [A, B], A answered with two books at the first request
C1_Witness ==
    /\ pc = "searched"
    /\ Len(sb.search_keywords) = 2
    /\ Len(reqLog) = 1
    /\ reqLog[1].res = "found"
    /\ Len(search_ret[1].found_books) = 2
    /\ search_ret[1].search_keyword = sb.search_keywords[1]

\* C2: every BookAnalysisResult, from analyze_search_result or from the
\* handler of _analyze_results, with error set has is_available False and
\* confidence 0.0.
Verdicts ==
    {analysis_results[j] : j \in 1..Len(analysis_results)}
        \cup {analysis_ret[j] : j \in 1..Len(analysis_ret)}

C2_ErrorMeansUnavailable ==
    \A v \in Verdicts : v.error # None => ~v.is_available /\ v.confidence = 0

\* one verdict of the handler and one of the exhausted retries
C2_Witness ==
    /\ Len(analysis_results) = 2
    /\ analysis_results[1].error = "unexpected"
    /\ analysis_results[2].error = ApiError

\* C3: every WeReadSearchResult search_book returns has
\* has_results == (len(found_books) > 0).
C3_HasResults ==
    \A j \in 1..Len(search_ret) :
        search_ret[j].has_results = (Len(search_ret[j].found_books) > 0)

\* a result with books although the provider counted none
C3_Witness ==
    /\ pc = "searched"
    /\ search_ret[1].has_results
    /\ search_ret[1].total_count = 0

\* C4: generate_search_keywords always returns, and with a keyword list
\* that is not empty: at most max_retries attempts are made, no exception
\* leaves the call, and the result holds at least one keyword; when the
\* remote model gave no usable list the first keyword is the title.
C4_KeywordsNeverEmpty ==
    /\ pc \in {"keywords", "generated"}
    /\ exc = None
    /\ kg.retry_count <= llm_max_retries
    /\ pc = "keywords" => kg.retry_count < llm_max_retries
    /\ pc = "generated" =>
          /\ Returned(keywords_result)
          /\ Len(keywords_result[1].keywords) >= 1
          /\ keywords_result[1].error # None
                => keywords_result[1].keywords[1] = <<kg.book_title>>

\* every attempt failed, no author: the result is [title]
C4_Witness ==
    /\ pc = "generated"
    /\ kg.retry_count = llm_max_retries
    /\ kg.author = None
    /\ keywords_result[1].keywords = << <<kg.book_title>> >>

\* C5: isolation in the analysis stage.  Whatever subset of the books has
\* an analysis that raises or fails, analysis_results keeps one entry per
\* analysed book, in input order: the normal result (the model's answer,
\* no error) for a book whose analysis answered, a result with error set
\* and is_available False for the others.  No exception of the analysis
\* stage leaves run(); after the stage the list has len(books) entries,
\* and the summary's total_books is len(books).
C5_AnalysisIsolation ==
    /\ Len(analysis_results) = Len(anLog)
    /\ Len(analysis_results) <= Len(books)
    /\ pc \in {"update", "notify", "done"} => Len(analysis_results) = Len(books)
    /\ pc = "raised" => anLog = <<>> /\ an = NoAnalyzeFrame
    /\ \A j \in 1..Len(anLog) :
          /\ j <= Len(analysis_results)
          /\ analysis_results[j].book_title = books[j].title
          /\ IF anLog[j].kind = "answer"
             THEN /\ analysis_results[j].error = None
                  /\ analysis_results[j].is_available
                        = Get(anLog[j].d, "is_available", FALSE)
                  /\ analysis_results[j].confidence
                        = Get(anLog[j].d, "confidence", 0)
             ELSE /\ analysis_results[j].error # None
                  /\ ~analysis_results[j].is_available
    /\ \A j \in 1..Len(message) : message[j].total_books = Len(books)

\* C6: an exception of the keyword or the search stage of one book is
\* caught at the per-book boundary and never leaves run(): run() raises
\* only before the loop over the books has started.
C6_StageExceptionIsolated == pc = "raised" => i = 0

\* C7: the availability state is a total function of (bookStatus, soldout),
\* missing values included (bookStatus None, soldout 0): Readable exactly
\* when bookStatus is 1 and soldout is 0, PendingRelease exactly when
\* bookStatus is 5 or soldout is 1, Unknown otherwise; every record of
\* the answer gets one of the three states.
C7_AvailabilityState ==
    \A j \in 1..Len(search_ret) : \A a \in 1..Len(search_ret[j].found_books) :
        LET book == search_ret[j].found_books[a]
        IN  /\ book.availability_status
                  \in {"Readable", "PendingRelease", "Unknown"}
            /\ book.availability_status = "Readable"
                  <=> (book.book_status = 1 /\ book.soldout = 0)
            /\ book.availability_status = "PendingRelease"
                  <=> (book.book_status = 5 \/ book.soldout = 1)
            /\ book.availability_status = "Unknown"
                  <=> ~(book.book_status = 1 /\ book.soldout = 0)
                      /\ ~(book.book_status = 5 \/ book.soldout = 1)

\* a record without bookStatus that is sold out: pending release
C7_Witness ==
    /\ pc = "searched"
    /\ Returned(search_ret)
    /\ Len(search_ret[1].found_books) = 1
    /\ search_ret[1].found_books[1].book_status = NoneNum
    /\ search_ret[1].found_books[1].soldout = 1
    /\ search_ret[1].found_books[1].availability_status = "PendingRelease"

\* C8: when every keyword of a book was answered with zero candidates,
\* the outcome has error set and the book's Verdict has is_available False
\* and confidence 0.0, whatever the remote reasoning call answers.
C8_NoCandidatesNotAvailable ==
    \A j \in 1..Len(analysis_results) :
        search_results[j].error = "no results" =>
            /\ search_results[j].error # None
            /\ ~analysis_results[j].is_available
            /\ analysis_results[j].confidence = 0

\* C9: a Verdict has is_available True only if the outcome it was given
\* has no error and holds at least one Readable candidate.
C9_AvailableOnlyIfReadable ==
    \A j \in 1..Len(analysis_results) :
        analysis_results[j].is_available =>
            /\ search_results[j].error = None
            /\ \E a \in 1..Len(search_results[j].found_books) :
                  search_results[j].found_books[a].availability_status = "Readable"

\* C10: a search that exhausts every keyword returns empty found_books,
\* the first keyword of the list as search_keyword, and as error the
\* error of the last failed request of the whole call, or the fixed
\* message when no request failed.
C10_ExhaustedOutcome ==
    pc = "searched" /\ ~search_ret[1].has_results =>
        /\ search_ret[1].found_books = <<>>
        /\ search_ret[1].search_keyword = sb.search_keywords[1]
        /\ search_ret[1].error = IF Failures = {} THEN "no results"
                                 ELSE reqLog[Last(Failures)].err

\* the first keyword fails on every attempt, the second is answered with
\* no book: the error is the first keyword's last failure
C10_Witness ==
    /\ pc = "searched"
    /\ Len(sb.search_keywords) = 2
    /\ Len(reqLog) = max_retries + 1
    /\ reqLog[max_retries].res = "fail"
    /\ reqLog[max_retries + 1].res = "empty"
    /\ search_ret[1].error = reqLog[max_retries].err
    /\ search_ret[1].search_keyword = sb.search_keywords[1]

\* the requests of reqLog for keyword k that ended as res
RequestsOf(k, res) == {a \in 1..Len(reqLog) : reqLog[a].kw = k /\ reqLog[a].res = res}

\* C11, as claimed: the error of a returned result is set only when every
\* keyword of the list failed on all max_retries attempts, and a result of
\* a call in which a request was answered (HTTP 200, a body that parses)
\* has no error.
C11_ErrorOnlyWhenAllExhausted ==
    pc = "searched" =>
        /\ search_ret[1].error # None =>
              \A k \in 1..Len(sb.search_keywords) :
                  Cardinality(RequestsOf(k, "fail")) = max_retries
        /\ (\E a \in 1..Len(reqLog) : reqLog[a].res \in {"found", "empty"})
              => search_ret[1].error = None

\* C11, amended: the error of a returned result is set exactly when the
\* result has no books, that is when no request of the call was answered
\* with at least one book, whether the requests failed or were answered
\* with an empty list; the result of a request answered with at least one
\* book has no error.
C11_ErrorIffNoBooks ==
    pc = "searched" =>
        /\ TruthyStr(search_ret[1].error) <=> search_ret[1].found_books = <<>>
        /\ search_ret[1].error = None <=> search_ret[1].found_books # <<>>
        /\ search_ret[1].error = None
              <=> \E a \in 1..Len(reqLog) : reqLog[a].res = "found"

\* one keyword, failed once and then answered with no book: the error is
\* set although a request was answered and no keyword used up its attempts
C11_Witness ==
    /\ pc = "searched"
    /\ Len(sb.search_keywords) = 1
    /\ Len(reqLog) = 2
    /\ reqLog[1].res = "fail"
    /\ reqLog[2].res = "empty"
    /\ search_ret[1].error = reqLog[1].err

\* the records of the answer the call ended with (data.get('books', []))
AnsweredRecords == Get(sb.data, "books", <<>>)

\* C12: found_books has at most 10 entries: the first min(10, k) of the k
\* records of the answer the call returned from, one entry per record, in
\* the provider's order, none left out and none moved.
C12_FirstTenInOrder ==
    pc = "searched" =>
        LET found_books == search_ret[1].found_books
            k           == Len(AnsweredRecords)
        IN  /\ Len(found_books) <= 10
            /\ Len(found_books) = IF k < 10 THEN k ELSE 10
            /\ \A j \in 1..Len(found_books) :
                  found_books[j] = FoundBook(AnsweredRecords[j])

\* an answer of twelve records: ten are kept, the tenth entry is the
\* tenth record, and the readable second record stays second
C12_Witness ==
    /\ pc = "searched"
    /\ Len(AnsweredRecords) = 12
    /\ Len(search_ret[1].found_books) = 10
    /\ search_ret[1].found_books[10].book_id = "r10"
    /\ search_ret[1].found_books[2].availability_status = "Readable"

\* C13: analyze_search_result never raises, whatever search result it is
\* given and whatever the remote call does: it makes at most max_retries
\* attempts and returns.  When every attempt failed, the result has
\* is_available False, confidence 0.0 and as error the last failure.
C13_AnalyzeNeverRaises ==
    /\ pc \in {"analyze", "analyzed"}
    /\ exc = None
    /\ an.retry_count <= llm_max_retries
    /\ pc = "analyze" => an.retry_count < llm_max_retries /\ analysis_ret = <<>>
    /\ pc = "analyzed" =>
          /\ Returned(analysis_ret)
          /\ an.outcome.kind \in {"answer", "failed"}
          /\ an.outcome.kind = "failed" <=> an.retry_count = llm_max_retries
          /\ an.outcome.kind = "failed" =>
                /\ ~analysis_ret[1].is_available
                /\ analysis_ret[1].confidence = 0
                /\ analysis_ret[1].error \in LLMErrors
                /\ analysis_ret[1].error = an.last_error

\* two API errors and then another exception, for a search result that
\* holds a readable book: the failed result carries the last of the three
C13_Witness ==
    /\ pc = "analyzed"
    /\ an.search_result.has_results
    /\ an.retry_count = llm_max_retries
    /\ an.slept = <<2, 4>>
    /\ an.last_error = OtherError
    /\ analysis_ret[1].error = OtherError
    /\ ~analysis_ret[1].is_available

\* C14: when every one of the max_retries attempts of
\* generate_search_keywords failed, the keywords are exactly [title] for a
\* call without an author (None or the empty string) and exactly
\* [title, "{title} {author}"] for a call with one, and the error is set:
\* the fixed text followed by the last failure.
C14_DefaultKeywords ==
    pc = "generated" /\ kg.retry_count = llm_max_retries =>
        /\ keywords_result[1].keywords =
              IF kg.author \in {None, ""}
              THEN << <<kg.book_title>> >>
              ELSE << <<kg.book_title>>, <<kg.book_title, kg.author>> >>
        /\ keywords_result[1].error # None
        /\ kg.last_error \in LLMErrors
        /\ keywords_result[1].error = GenerationFailed(kg.last_error)

\* an API error, then two other exceptions, for a book with an author:
\* two keywords, and the error names the last failure
C14_Witness ==
    /\ pc = "generated"
    /\ kg.retry_count = llm_max_retries
    /\ kg.author = "Harari"
    /\ kg.slept = <<2, 1>>
    /\ keywords_result[1].keywords = << <<"Sapiens">>, <<"Sapiens", "Harari">> >>
    /\ keywords_result[1].error = "generation failed: attribute error"

\* a text none of the three decoders of _parse_llm_response decodes
Unparseable(text) ==
    /\ text.strict.type = "undecodable"
    /\ ~(text.fence /\ text.fenced.type # "undecodable")
    /\ ~(text.brace /\ text.braced.type # "undecodable")

\* C15: an answer of the remote model that cannot be parsed as JSON takes
\* no attempt from the retry budget of generate_search_keywords (the call
\* returns at once, its retry count being the number of failed calls
\* before), and the result returned for it has its error set.
C15_ParseFailureSurfaced ==
    pc = "generated" /\ kg.result_text # <<>> /\ Unparseable(kg.result_text[1]) =>
        /\ kg.retry_count = Len(kg.slept)
        /\ keywords_result[1].error # None

\* The order of a run over n books that no exception cuts short, by
\* position of callLog: book after book, keyword generation called and
\* returned, search called and returned, the sleep unless the book is the
\* last; then, book after book, the analysis called and returned.
SearchStageLen(n) == 5 * n - 1
ScheduleLen(n)    == IF n = 0 THEN 0 ELSE 7 * n - 1
Scheduled(a, n) ==
    IF a <= SearchStageLen(n)
    THEN LET j == ((a - 1) \div 5) + 1
             r == (a - 1) % 5
         IN  CASE r = 0 -> Called("generate_search_keywords", j)
               [] r = 1 -> Returned_("generate_search_keywords", j)
               [] r = 2 -> Called("search_book", j)
               [] r = 3 -> Returned_("search_book", j)
               [] OTHER -> Slept(j)
    ELSE LET b == a - SearchStageLen(n)
             j == ((b - 1) \div 2) + 1
         IN  IF b % 2 = 1 THEN Called("analyze_search_result", j)
                          ELSE Returned_("analyze_search_result", j)

\* C16, at every moment of a run: callLog is the beginning of that order
\* (a call that raised taking the place of its return), so each stage is
\* called at most once per book, and exactly once once the analysis stage
\* is over; the search of a book is called right after that book's keyword
\* generation returned; the analysis of a book is called after that book's
\* search returned, for that book and with the result kept for it; within
\* a stage the books are called in input order.
C16_Order ==
    /\ Len(callLog) <= ScheduleLen(Len(books))
    /\ \A a \in 1..Len(callLog) :
          \/ callLog[a] = Scheduled(a, Len(books))
          \/ /\ callLog[a] = [Scheduled(a, Len(books)) EXCEPT !.ev = "raise"]
             /\ Scheduled(a, Len(books)).ev = "return"
    /\ pc \in {"update", "notify", "done"} => Len(callLog) = ScheduleLen(Len(books))
    /\ pc \in {"analyze", "analyzed"} =>
          /\ Len(search_results) = Len(books)
          /\ an.book_title = books[i].title
          /\ an.search_result = search_results[i]

\* C16, at every step of a run: the search of book i is called with the
\* keyword list the generator returned for book i, and what that search
\* returns is the result kept for book i.
C16_Handover ==
    /\ pc = "generated" /\ pc' = "search" =>
          /\ sb'.book_title = books[i].title
          /\ sb'.search_keywords = keywords_result[1].keywords
    /\ pc = "searched" /\ pc' # "searched" =>
          /\ Len(search_results) = i - 1
          /\ search_results' = Append(search_results, search_ret[1])

\* C16: for every book of a run, keyword generation is called once and
\* returns before the book's search is called, the search is called once,
\* with the keyword list the generator returned and not with the title, the
\* analysis is called after the search returned, with the search's result,
\* and the books enter each stage in input order.
C16_StagesPerBook == []C16_Order /\ [][C16_Handover]_vars

\* two books through all stages: the second book's search was called with
\* the generator's two keywords and found its book under the second
C16_Witness ==
    /\ pc = "done"
    /\ Len(books) = 2
    /\ Len(callLog) = 13
    /\ search_results[2].search_keyword = Keyword(2)
    /\ search_results[2].has_results

\* the call callLog[a] ended: it returned or it raised
EndOf(e) == {Returned_(e.op, e.book), Raised(e.op, e.book)}

\* C17, as claimed: no call (keyword generation, search, analysis) for a
\* book is issued before the analysis of the book before it has ended.
C17_BookByBook ==
    \A a \in 1..Len(callLog) :
        callLog[a].ev = "call" /\ callLog[a].book > 1 =>
            \E b \in 1..(a - 1) :
                callLog[b] \in EndOf(Called("analyze_search_result",
                                            callLog[a].book - 1))

\* C17, amended: the books are handled one at a time within each stage,
\* and the stages follow each other over the whole batch.  No call is
\* issued while another is in progress, and the call in progress is the
\* last one issued; the keyword generation of a book is issued when the
\* search of the book before it has returned (and the sleep is over), its
\* search when its keyword generation has returned; the analysis of the
\* first book is issued when the search of the last book has returned,
\* that is after the search of every book, and the analysis of any other
\* book when the analysis of the book before it has ended.
C17_OneAtATimePerStage ==
    /\ \A a \in 1..Len(callLog) :
          LET e == callLog[a]
          IN  e.ev = "call" =>
                /\ a > 1 => callLog[a - 1].ev # "call"
                /\ a < Len(callLog) => callLog[a + 1] \in EndOf(e)
                /\ e.op = "generate_search_keywords" /\ e.book > 1 =>
                      /\ a > 2
                      /\ callLog[a - 2] = Returned_("search_book", e.book - 1)
                /\ e.op = "search_book" =>
                      /\ a > 1
                      /\ callLog[a - 1] = Returned_("generate_search_keywords", e.book)
                /\ e.op = "analyze_search_result" =>
                      /\ a > 1
                      /\ IF e.book = 1
                         THEN callLog[a - 1] = Returned_("search_book", Len(books))
                         ELSE callLog[a - 1] \in
                                EndOf(Called("analyze_search_result", e.book - 1))
    /\ pc \in {"keywords", "generated"} =>
          callLog[Len(callLog)] = Called("generate_search_keywords", i)
    /\ pc \in {"search", "searched"} /\ books # <<>> =>
          callLog[Len(callLog)] = Called("search_book", i)
    /\ pc \in {"analyze", "analyzed"} /\ books # <<>> =>
          callLog[Len(callLog)] = Called("analyze_search_result", i)

\* two books: the analysis of the first is called when the search of the
\* second has returned
C17_Witness ==
    /\ pc = "analyze"
    /\ Len(books) = 2
    /\ i = 1
    /\ Len(callLog) = 10
    /\ callLog[9] = Returned_("search_book", 2)
    /\ callLog[10] = Called("analyze_search_result", 1)

\* C18: in a run over n >= 1 books the fixed sleep between two books is
\* slept n - 1 times.  Every sleep comes right after a search returned,
\* for a book that is not the last, and the next book's keyword generation
\* is called after it; every book but the last whose result is kept,
\* whether the search found books or failed, has its sleep; the search of
\* a book after the first is called with the sleep after the book before
\* it slept since that book's search returned; nothing is slept after the
\* last book's search.
C18_InterBookDelay ==
    /\ \A a \in 1..Len(callLog) :
          LET e == callLog[a]
          IN  /\ e.op = "sleep" =>
                    /\ e.book < Len(books)
                    /\ a > 1 /\ callLog[a - 1] = Returned_("search_book", e.book)
                    /\ a < Len(callLog) =>
                          callLog[a + 1] = Called("generate_search_keywords", e.book + 1)
              /\ e = Returned_("search_book", e.book) =>
                    IF e.book < Len(books)
                    THEN a < Len(callLog) /\ callLog[a + 1] = Slept(e.book)
                    ELSE a < Len(callLog) => callLog[a + 1].op # "sleep"
              /\ e = Called("search_book", e.book) /\ e.book > 1 =>
                    /\ a > 4
                    /\ callLog[a - 4] = Returned_("search_book", e.book - 1)
                    /\ callLog[a - 3] = Slept(e.book - 1)
    /\ \A j \in 1..Len(search_results) :
          j < Len(books) => callLog[5 * j] = Slept(j)
    /\ pc \in {"analyze", "analyzed", "update", "notify", "done"} /\ books # <<>> =>
          Cardinality({a \in 1..Len(callLog) : callLog[a].op = "sleep"})
              = Len(books) - 1

\* two books, the search of the first failed on every request: one sleep,
\* after the first book
C18_Witness ==
    /\ pc = "done"
    /\ Len(books) = 2
    /\ search_results[1].error = "HTTP 500"
    /\ callLog[5] = Slept(1)
    /\ Cardinality({a \in 1..Len(callLog) : callLog[a].op = "sleep"}) = 1

\* the books, by index, whose verdict is available
AvailableIndices == {j \in 1..Len(analysis_results) : analysis_results[j].is_available}

\* C19: in the message built for a batch of n books, total_books is n,
\* available_books is the number of verdicts with is_available true,
\* unavailable_books is total_books - available_books; the two counts add
\* up to total_books and both lie in 0..n.
C19_SummaryCounts ==
    \A m \in 1..Len(message) :
        LET n == Len(books)
        IN  /\ message[m].total_books = n
            /\ message[m].available_books = Cardinality(AvailableIndices)
            /\ message[m].unavailable_books
                  = message[m].total_books - message[m].available_books
            /\ message[m].available_books + message[m].unavailable_books
                  = message[m].total_books
            /\ message[m].available_books \in 0..n
            /\ message[m].unavailable_books \in 0..n

\* two books, one available with a confidence at the threshold, one not
\* judged: one available, one unavailable
C19_Witness ==
    /\ pc = "done"
    /\ Len(books) = 2
    /\ analysis_results[1].is_available /\ analysis_results[1].confidence = 70
    /\ analysis_results[2].error # None
    /\ message[1].available_books = 1
    /\ message[1].unavailable_books = 1

\* is_available and confidence > 0.7 (main.py:258), for book j
Confident(j) ==
    analysis_results[j].is_available /\ analysis_results[j].confidence > 70

\* the place of book j among the books up to it that meet the condition
Rank(j) == Cardinality({m \in 1..j : Confident(m)})

\* C20: newly_available lists, in input order, exactly the books whose
\* verdict has is_available true and a confidence strictly above 0.7:
\* each such book is listed once, at the place it has among them, with
\* its title and its author ('' for none); the list has no other entry,
\* so a book at exactly 0.7, or one that is not available whatever its
\* confidence, is not listed.
C20_NewlyAvailable ==
    \A m \in 1..Len(message) :
        LET new == message[m].newly_available
        IN  /\ Len(new) = Rank(Len(books))
            /\ \A j \in 1..Len(books) :
                  Confident(j) =>
                      /\ Rank(j) <= Len(new)
                      /\ new[Rank(j)].title = books[j].title
                      /\ new[Rank(j)].author
                            = IF books[j].author \in {None, ""} THEN ""
                              ELSE books[j].author

\* two books: the first available at exactly 0.7, the second at 0.71;
\* only the second is listed
C20_Witness ==
    /\ pc = "done"
    /\ Len(books) = 2
    /\ analysis_results[1].is_available /\ analysis_results[1].confidence = 70
    /\ analysis_results[2].is_available /\ analysis_results[2].confidence = 71
    /\ Len(message[1].newly_available) = 1
    /\ message[1].newly_available[1].title = books[2].title

\* the place of book j among the books up to it whose verdict has an error
ErrorRank(j) ==
    Cardinality({m \in 1..j : analysis_results[m].error # None})

\* C21: failed_books lists, in input order, exactly the books whose
\* verdict has error set, each with its title and that error: each such
\* book is listed once, at the place it has among them, and the list has
\* no other entry, so a book whose verdict has no error is not listed.
C21_FailedBooks ==
    \A m \in 1..Len(message) :
        LET failed == message[m].failed_books
        IN  /\ Len(failed) = ErrorRank(Len(books))
            /\ \A j \in 1..Len(books) :
                  analysis_results[j].error # None =>
                      /\ ErrorRank(j) <= Len(failed)
                      /\ failed[ErrorRank(j)].title = books[j].title
                      /\ failed[ErrorRank(j)].error = analysis_results[j].error

\* two books: the first judged unavailable without an error, the second
\* not judged; only the second is listed, with its error
C21_Witness ==
    /\ pc = "done"
    /\ Len(books) = 2
    /\ ~analysis_results[1].is_available /\ analysis_results[1].error = None
    /\ analysis_results[2].error = ApiError
    /\ Len(message[1].failed_books) = 1
    /\ message[1].failed_books[1].title = books[2].title
    /\ message[1].failed_books[1].error = ApiError

\* the search of book j failed on its last attempts and found no book
SearchFailed(j) == search_results[j].error \in SearchErrors

\* the analysis of book j failed on every attempt
AnalysisExhausted(j) == anLog[j].kind = "failed"

\* C22, for the search and the analysis stage: in the summary of a run,
\* every book whose search ended on exhausted retries, or whose analysis
\* exhausted its retries, has a verdict with error set and an entry in
\* failed_books that names it with an error.
C22_FailuresSurface ==
    \A m \in 1..Len(message) : \A j \in 1..Len(books) :
        SearchFailed(j) \/ AnalysisExhausted(j) =>
            /\ analysis_results[j].error # None
            /\ \E k \in 1..Len(message[m].failed_books) :
                  /\ message[m].failed_books[k].title = books[j].title
                  /\ message[m].failed_books[k].error # None

\* the calls of update_book_status made for book j, as positions of callLog
UpdateCalls(j) ==
    {a \in 1..Len(callLog) :
        callLog[a].op = "update_book_status" /\ callLog[a].book = j}

\* C23: every kept search outcome carries the keywords attempted for its
\* book, and once the update stage is over update_book_status has been
\* called exactly once for each book, with the verdict's availability flag.
C23_AttemptedKeywordsRecorded ==
    /\ \A j \in 1..Len(search_results) :
          "attempted_keywords" \in DOMAIN search_results[j]
    /\ pc \in {"notify", "done"} /\ exc = None =>
          \A j \in 1..Len(books) :
              /\ Cardinality(UpdateCalls(j)) = 1
              /\ \A a \in UpdateCalls(j) :
                    callLog[a].available = analysis_results[j].is_available

\* C24: every verdict analyze_search_result returns has a boolean
\* is_available and a confidence between 0.0 and 1.0, whatever the answer
\* of the remote call holds.
C24_VerdictInRange ==
    \A m \in 1..Len(analysis_ret) :
        /\ analysis_ret[m].is_available \in BOOLEAN
        /\ analysis_ret[m].confidence \in 0..100

\* C25: the keyword list generate_search_keywords returns has between 1
\* and 5 entries, and when the remote model answered with a keyword list
\* its entries are entries of that list, in the list's order.
C25_KeywordCount ==
    \A m \in 1..Len(keywords_result) :
        LET keywords == keywords_result[m].keywords
            answer == IF kg.result_text = <<>> THEN Undecodable
                      ELSE _parse_llm_response(kg.result_text[1])
            given == IF answer.type = "dict"
                     THEN Get(answer.d, "keywords", NoKeywords)
                     ELSE NoKeywords
            items == IF given.list THEN given.items ELSE <<>>
        IN  /\ Len(keywords) \in 1..AskedKeywords
            /\ items # <<>> /\ keywords_result[m].error = None =>
                  \A j \in 1..Len(keywords) :
                      j <= Len(items) /\ keywords[j] = items[j]

\* keyword generation or search raised for a book and the handler of
\* main.py:138-150 failed in turn (the case of C6)
StageHandlerFailed ==
    /\ callLog # <<>>
    /\ callLog[Len(callLog)].ev = "raise"
    /\ callLog[Len(callLog)].op \in {"generate_search_keywords", "search_book"}

\* C27, apart from the case of C6: main() exits with a status other than 0
\* only when the batch could not be fetched, never because of what
\* happened to one book of the batch.
C27_ExitStatus ==
    ExitStatus # 0 => exc = "fetch failed" \/ StageHandlerFailed

\* C28, once run() is over for a batch that is not empty, apart from the
\* case of C6: it ended normally, with one search outcome and one verdict
\* for every book, and the summary has been built and sent.
C28_EndsComplete ==
    /\ pc \in {"done", "raised"}
    /\ books # <<>> /\ exc # "fetch failed" /\ ~StageHandlerFailed
    =>
        /\ pc = "done"
        /\ Len(search_results) = Len(books)
        /\ Len(analysis_results) = Len(books)
        /\ Returned(message)

\* C29: nothing of one book reaches another.  Every call is made with the
\* arguments of its own book, on a fresh frame, and what is kept at a
\* book's position is the outcome of that book's own calls: the search
\* result and the verdict at position j carry the title of book j, and the
\* verdict is the one the answer to book j's own reasoning call gives.
C29_NoCrossBookState ==
    /\ pc = "keywords" =>
          kg.book_title = books[i].title /\ kg.author = books[i].author
    /\ pc = "search" => sb.book_title = books[i].title
    /\ pc = "analyze" =>
          /\ an.book_title = books[i].title /\ an.author = books[i].author
          /\ an.search_result = search_results[i]
    /\ \A j \in 1..Len(search_results) :
          search_results[j].book_title = books[j].title
    /\ \A j \in 1..Len(books) : j <= Len(analysis_results) =>
          /\ analysis_results[j].book_title = books[j].title
          /\ j <= Len(anLog) /\ anLog[j].kind = "answer" =>
                analysis_results[j] = AnswerResult(books[j].title, anLog[j].d)

\* how often send has attempted the channel ch
Attempts(ch) == Cardinality({a \in 1..Len(nf.calls) : nf.calls[a] = ch})

\* the requests posted to the channel ch, as positions of nf.posts
Posts(ch) == {a \in 1..Len(nf.posts) : nf.posts[a].channel = ch}

\* C26: no exception leaves Notifier.send, whatever a webhook does with
\* the request.  No channel is attempted twice; once send has returned,
\* every enabled channel that send knows has been attempted exactly once,
\* whether or not the other one failed, no other channel has been
\* attempted, and the result map has exactly one entry, a boolean, per
\* enabled known channel: True only for a posted request that was
\* answered with success.  Then run() ends normally.
C26_DeliveryIsolated ==
    /\ exc = None
    /\ pc \in {"send", "done"}
    /\ \A ch \in KnownChannels :
          Attempts(ch) <= 1 /\ Cardinality(Posts(ch)) <= Attempts(ch)
    /\ pc = "done" =>
          /\ nf.at = "returned"
          /\ DOMAIN nf.results = nf.config.enabled_channels \cap KnownChannels
          /\ Len(nf.calls) = Cardinality(DOMAIN nf.results)
          /\ \A ch \in DOMAIN nf.results :
                /\ nf.results[ch] \in BOOLEAN
                /\ Attempts(ch) = 1
                /\ nf.results[ch] =>
                      \E a \in Posts(ch) :
                          /\ ~nf.posts[a].response.raised
                          /\ nf.posts[a].response.status = 200
                          /\ nf.posts[a].response.body.type = "dict"

\* both channels enabled: the request to the first raises, the second is
\* attempted all the same and answered with HTTP 500; both results are
\* False and run() is over without an exception
C26_Witness ==
    /\ pc = "done" /\ exc = None
    /\ nf.config.enabled_channels = {"wecom", "feishu", "mail"}
    /\ nf.calls = <<"wecom", "feishu">>
    /\ Len(nf.posts) = 2
    /\ nf.posts[1].response.raised
    /\ nf.posts[2].response.status = 500
    /\ ~nf.results["wecom"] /\ ~nf.results["feishu"]

\* C30: batch_analyze raises ValueError exactly when its two lists differ
\* in length, and then at once: no call of analyze_search_result was made,
\* so no remote call and no retry, and nothing was analysed.  For lists of
\* one length no exception leaves the call, the results follow the books
\* in order, every result under the title of its book, and the call
\* returns with one result per book.
C30_BatchFailsFast ==
    /\ pc \in {"batch", "analyze", "analyzed", "batch_done", "raised"}
    /\ Len(books) # Len(search_results) =>
          /\ pc \in {"batch", "raised"}
          /\ callLog = <<>>
          /\ an = NoAnalyzeFrame
          /\ analysis_results = <<>>
    /\ pc = "raised" <=> exc = "ValueError"
    /\ Len(books) = Len(search_results) =>
          /\ exc = None
          /\ Len(analysis_results) <= Len(books)
          /\ \A j \in 1..Len(analysis_results) :
                analysis_results[j].book_title = Get(books[j], "title", "")
          /\ pc = "batch_done" =>
                /\ Len(analysis_results) = Len(books)
                /\ Len(callLog) = Len(books)

\* two books and one search result: ValueError, and nothing was called
C30_Witness ==
    /\ pc = "raised"
    /\ exc = "ValueError"
    /\ Len(books) = 2 /\ Len(search_results) = 1
    /\ callLog = <<>>
    /\ an.retry_count = 0

\* C31: a request answered with HTTP 200 and no book is the last request
\* of its keyword, however many retries were left: the request after it,
\* if any, is for the next keyword; when none has been issued yet the call
\* is at the first attempt of the next keyword, or, after the last
\* keyword, has returned the result without books.
C31_EmptyEndsKeyword ==
    \A a \in 1..Len(reqLog) : reqLog[a].res = "empty" =>
        IF a < Len(reqLog)
        THEN reqLog[a + 1].kw = reqLog[a].kw + 1
        ELSE IF reqLog[a].kw < Len(sb.search_keywords)
             THEN /\ pc = "search"
                  /\ sb.k = reqLog[a].kw + 1
                  /\ sb.retry_count = 0
             ELSE /\ pc = "searched"
                  /\ Returned(search_ret)
                  /\ search_ret[1].found_books = <<>>
                  /\ search_ret[1].error # None

\* the first keyword fails once and is then answered without books, with
\* retries left: the third request is for the second keyword
C31_Witness ==
    /\ Len(reqLog) >= 3
    /\ reqLog[1].kw = 1 /\ reqLog[1].res = "fail"
    /\ reqLog[2].kw = 1 /\ reqLog[2].res = "empty"
    /\ reqLog[3].kw = 2

\* the failed requests for keyword k among the first a requests
FailedUpTo(k, a) ==
    Cardinality({b \in 1..a : reqLog[b].kw = k /\ reqLog[b].res = "fail"})

\* C32: a failed request is followed by a request for the same keyword as
\* long as the keyword has failed fewer than max_retries times, and by the
\* next keyword (or the end of the call) once it has failed max_retries
\* times; the error of the latest failure is what the call remembers.  No
\* keyword gets more than max_retries requests, and the call issues at
\* most len(keywords) * max_retries requests.
C32_RetrySameKeyword ==
    /\ Len(reqLog) <= Len(sb.search_keywords) * max_retries
    /\ \A k \in 1..Len(sb.search_keywords) :
          Cardinality({a \in 1..Len(reqLog) : reqLog[a].kw = k}) <= max_retries
    /\ \A a \in 1..Len(reqLog) : reqLog[a].res = "fail" =>
          LET k == reqLog[a].kw
              again == FailedUpTo(k, a) < max_retries
          IN  /\ reqLog[a].err \in SearchErrors
              /\ IF a < Len(reqLog)
                 THEN reqLog[a + 1].kw = IF again THEN k ELSE k + 1
                 ELSE /\ sb.last_error = reqLog[a].err
                      /\ IF again
                         THEN /\ pc = "search" /\ sb.k = k
                              /\ sb.retry_count = FailedUpTo(k, a)
                         ELSE IF k < Len(sb.search_keywords)
                              THEN /\ pc = "search" /\ sb.k = k + 1
                                   /\ sb.retry_count = 0
                              ELSE /\ pc = "searched"
                                   /\ search_ret[1].error = reqLog[a].err

\* the first keyword fails max_retries times, in three ways; the request
\* after them is for the second keyword, and the call has made every
\* request it may make
C32_Witness ==
    /\ pc = "searched"
    /\ Len(sb.search_keywords) = 2
    /\ Len(reqLog) = 2 * max_retries
    /\ reqLog[1].err = "HTTP 500"
    /\ reqLog[2].err = "request failed"
    /\ reqLog[max_retries].kw = 1 /\ reqLog[max_retries].err = "malformed body"
    /\ reqLog[max_retries + 1].kw = 2
    /\ search_ret[1].error = reqLog[2 * max_retries].err

\* the waits of the frame f of one call: one wait after every failed
\* attempt but the last of max_retries, and 2 ^ n seconds after the n-th
\* failed attempt when that was an API error
ExponentialWaits(f) ==
    /\ f.retry_count <= llm_max_retries
    /\ Len(f.slept) = IF f.retry_count < llm_max_retries
                      THEN f.retry_count ELSE llm_max_retries - 1
    /\ f.retry_count \in 1..(llm_max_retries - 1) /\ f.last_error = ApiError =>
          f.slept[f.retry_count] = 2 ^ f.retry_count

\* C33: a call of generate_search_keywords or of analyze_search_result
\* makes at most max_retries remote calls (an answer is the call after
\* fewer than max_retries failures, and no call follows the
\* max_retries-th failure); after the n-th failed call, if it was an API
\* error and not the last, the method waits 2 ^ n seconds; it does not
\* wait after the last.
C33_ExponentialBackoff ==
    /\ ExponentialWaits(kg) /\ ExponentialWaits(an)
    /\ pc \in {"keywords", "analyze"} =>
          kg.retry_count < llm_max_retries /\ an.retry_count < llm_max_retries
    /\ kg.result_text # <<>> => kg.retry_count < llm_max_retries
    /\ an.outcome.kind = "answer" => an.retry_count < llm_max_retries
    /\ pc = "generated" /\ kg.result_text = <<>> =>
          kg.retry_count = llm_max_retries
    /\ pc = "analyzed" /\ an.outcome.kind # "answer" =>
          an.retry_count = llm_max_retries

\* three API errors in a call of analyze_search_result: waits of 2 and 4
\* seconds, none after the third
C33_Witness ==
    /\ pc = "analyzed"
    /\ an.retry_count = llm_max_retries
    /\ an.last_error = ApiError
    /\ an.slept = <<2, 4>>

\* the three decoding steps of a text, in the order of the code: whether
\* the step is taken once the earlier ones failed, and what it decodes
DecodingSteps(response_text) ==
    << [taken |-> TRUE, value |-> response_text.strict],
       [taken |-> response_text.fence, value |-> response_text.fenced],
       [taken |-> response_text.brace, value |-> response_text.braced] >>

\* C34: _parse_llm_response never raises, whatever the text, and returns
\* what the first succeeding step decodes, the steps being the strict
\* decode of the text, the decode of the fenced json block when there is
\* one, the decode of the span from the first '{' to the last '}'; when no
\* step succeeds it returns the default object (is_available False,
\* confidence 0.0, no recommended keywords).  The result depends on the
\* text alone.
C34_FallbackChain ==
    /\ pc # "raised"
    /\ pc = "parsed" =>
        LET steps == DecodingSteps(kg.result_text[1])
            succeeded == { n \in 1..3 : steps[n].taken
                                        /\ steps[n].value.type # "undecodable" }
            result == keywords_result[1]
        IN  /\ Len(keywords_result) = 1
            /\ succeeded # {} =>
                  \E n \in succeeded :
                      /\ \A m \in succeeded : n <= m
                      /\ result = steps[n].value
            /\ succeeded = {} =>
                  /\ result.type = "dict"
                  /\ result.d.is_available = FALSE
                  /\ result.d.confidence = 0
                  /\ result.d.recommended_keywords = <<>>
            /\ result = _parse_llm_response(kg.result_text[1])

\* the keyword lists search_book may work with for a title: a custom list
\* that is not empty, or [title], or [title, "title author"] for an author
\* that is given
UsableKeywordLists(book_title) ==
    { KeywordList(n) : n \in 1..MaxKeywords } \cup
    { << <<book_title>> >> } \cup
    { << <<book_title>>, <<book_title, author>> >> :
          author \in { a \in Authors : a # None /\ a # "" } }

\* C35: search_book never propagates an exception, whatever the title,
\* the author, the keyword list (an empty or missing one is replaced by
\* [title], plus "title author" when an author is given) and whatever the
\* endpoint does (a non-200 status, a network error, a body or a record
\* that is malformed): it goes through a list that is not empty, and
\* returns one WeReadSearchResult whose search_keyword is a keyword of
\* that list.
C35_SearchNeverRaises ==
    /\ pc \in {"search", "searched"}
    /\ exc = None
    /\ sb.search_keywords \in UsableKeywordLists(sb.book_title)
    /\ sb.k \in 1..Len(sb.search_keywords)
    /\ sb.retry_count <= max_retries
    /\ pc = "search" => search_ret = <<>> /\ sb.retry_count < max_retries
    /\ pc = "searched" =>
          /\ Len(search_ret) = 1
          /\ search_ret[1].book_title = sb.book_title
          /\ \E k \in 1..Len(sb.search_keywords) :
                search_ret[1].search_keyword = sb.search_keywords[k]

\* no custom keywords and an author: the default list of two keywords, a
\* request that failed on a malformed body, and a result without books
\* that names the first keyword
C35_Witness ==
    /\ pc = "searched"
    /\ sb.search_keywords = << <<"Sapiens">>, <<"Sapiens", "Harari">> >>
    /\ \E a \in 1..Len(reqLog) : reqLog[a].err = "malformed body"
    /\ \E a \in 1..Len(reqLog) : reqLog[a].err = "HTTP 500"
    /\ \E a \in 1..Len(reqLog) : reqLog[a].err = "request failed"
    /\ search_ret[1].found_books = <<>>
    /\ search_ret[1].search_keyword = <<"Sapiens">>

\* C36: in search_book the random delay is slept after a request exactly
\* when the request failed and was not the keyword's last, that is exactly
\* when the next request is for the same keyword; it is slept neither
\* after the max_retries-th failure of a keyword nor after an answer
\* without books, so nothing is slept between the last request of a
\* keyword and the first request of the next, nor before the call returns.
C36_DelayBetweenRetries ==
    \A a \in 1..Len(reqLog) :
        /\ reqLog[a].slept <=>
              /\ reqLog[a].res = "fail"
              /\ FailedUpTo(reqLog[a].kw, a) < max_retries
        /\ reqLog[a].res \in {"empty", "found"} => ~reqLog[a].slept
        /\ a < Len(reqLog) =>
              (reqLog[a].slept <=> reqLog[a + 1].kw = reqLog[a].kw)
        /\ a = Len(reqLog) /\ reqLog[a].slept =>
              pc = "search" /\ sb.k = reqLog[a].kw
        /\ a = Len(reqLog) /\ pc = "searched" => ~reqLog[a].slept

\* two keywords: two delays between the three failed requests of the
\* first, none before the second keyword's request, which is answered
\* with no book, and none before the return
C36_Witness ==
    /\ pc = "searched"
    /\ Len(reqLog) = max_retries + 1
    /\ \A a \in 1..max_retries :
          /\ reqLog[a].kw = 1 /\ reqLog[a].res = "fail"
          /\ reqLog[a].slept <=> a < max_retries
    /\ reqLog[max_retries + 1].kw = 2
    /\ reqLog[max_retries + 1].res = "empty"
    /\ ~reqLog[max_retries + 1].slept

\* no step of _parse_llm_response gets a JSON value out of the text
NoStepParses(response_text) ==
    \A n \in 1..3 :
        LET step == DecodingSteps(response_text)[n]
        IN  ~step.taken \/ step.value.type \in {"undecodable", "raises"}

\* C37: when the remote call of analyze_search_result answers with a text
\* that no extraction step parses, the call returns at once, without
\* another attempt, a result with is_available False, confidence 0.0 and
\* no error; in the summary built from it the book is counted as
\* unavailable and is not listed in failed_books.
C37_UnparsedAnswerReturns ==
    an.response_text # <<>> /\ NoStepParses(an.response_text[1]) =>
        /\ pc = "analyzed"
        /\ an.outcome.kind = "answer"
        /\ Len(analysis_ret) = 1
        /\ ~analysis_ret[1].is_available
        /\ analysis_ret[1].confidence = 0
        /\ analysis_ret[1].error = None
        /\ LET summary == NotificationMessage(
                              << Book(an.book_title, an.author) >>, analysis_ret)
           IN  /\ summary.unavailable_books = 1
               /\ summary.available_books = 0
               /\ summary.failed_books = <<>>

\* the titles of the entries of a list of the summary
TitlesOf(entries) == { entries[j].title : j \in 1..Len(entries) }

\* C38: in every summary _send_notification builds, no book is listed in
\* both newly_available and failed_books (a result with an error is not
\* available), newly_available has at most available_books entries and
\* failed_books at most unavailable_books entries.
C38_SummaryListsDisjoint ==
    \A m \in 1..Len(message) :
        LET new    == message[m].newly_available
            failed == message[m].failed_books
        IN  /\ Len(new) <= message[m].available_books
            /\ Len(failed) <= message[m].unavailable_books
            /\ Len(new) + Len(failed) <= message[m].total_books
            /\ \A j \in 1..Len(books) : j <= Len(analysis_results) =>
                  ~(/\ analysis_results[j].is_available
                    /\ analysis_results[j].confidence > 70
                    /\ TruthyStr(analysis_results[j].error))
            /\ Cardinality(TitlesOf(books)) = Len(books) =>
                  TitlesOf(new) \cap TitlesOf(failed) = {}

\* two books, the first judged available with a confidence of 0.9, the
\* second not judged after max_retries API errors: one entry in each list
C38_Witness ==
    /\ pc = "done"
    /\ Len(books) = 2
    /\ analysis_results[1].is_available /\ analysis_results[1].confidence = 90
    /\ analysis_results[2] = FailedResult(books[2].title, ApiError)
    /\ TitlesOf(message[1].newly_available) = {books[1].title}
    /\ TitlesOf(message[1].failed_books) = {books[2].title}
    /\ message[1].available_books = 1
    /\ message[1].unavailable_books = 1

\* the calls of callLog made so far for the operation op
CallsOf(op) == {a \in 1..Len(callLog) : callLog[a].op = op /\ callLog[a].ev = "call"}

\* the phases of run() come in their order: while the books are searched
\* nothing is analysed, while they are analysed every book has its search
\* result and nothing is updated, the updates start when every book has
\* been analysed, and the summary is built after the last update
C39_PhasesInOrder ==
    /\ pc \in {"keywords", "generated", "search", "searched"} =>
          /\ Len(search_results) = i - 1
          /\ CallsOf("analyze_search_result") = {}
          /\ analysis_results = <<>> /\ anLog = <<>>
          /\ stats = [success |-> 0, failed |-> 0]
          /\ message = <<>>
    /\ pc \in {"analyze", "analyzed"} =>
          /\ Len(search_results) = Len(books)
          /\ Cardinality(CallsOf("search_book")) = Len(books)
          /\ Len(anLog) = i - 1
          /\ stats = [success |-> 0, failed |-> 0]
          /\ message = <<>>
    /\ pc = "update" =>
          /\ Len(anLog) = Len(books)
          /\ stats.success + stats.failed = i - 1
          /\ message = <<>>
    /\ pc = "notify" =>
          /\ stats.success + stats.failed = Len(books)
          /\ message = <<>>
    /\ pc = "done" /\ books # <<>> =>
          /\ Len(anLog) = Len(books)
          /\ stats.success + stats.failed = Len(books)

\* C39, apart from the case of C6: for an empty batch run() returns right
\* after the fetch, with no call for keywords, search or analysis, no
\* update and no summary; for a batch that is not empty the phases come in
\* the order fetch, search of every book, analysis of every book, updates,
\* summary, and the run ends with exactly one summary, built and sent
\* after the last update was attempted.
C39_RunPhases ==
    /\ books = <<>> =>
          /\ pc \in {"fetch", "done", "raised"}
          /\ callLog = <<>>
          /\ search_results = <<>> /\ analysis_results = <<>>
          /\ stats = [success |-> 0, failed |-> 0]
          /\ message = <<>>
    /\ C39_PhasesInOrder
    /\ Len(message) <= 1
    /\ /\ pc \in {"done", "raised"}
       /\ books # <<>> /\ exc # "fetch failed" /\ ~StageHandlerFailed
       => Len(message) = 1

\* C40: _update_notion handles every book of the batch once, in order. A
\* book whose update raises (or returns False) is counted as failed and
\* the loop goes on with the next book: before book i is handled the two
\* counters add up to i - 1, update_book_status is called at most once per
\* book, and once the stage is over, whatever failed in it,
\* success + failed is the number of books and the run has gone on to the
\* notification.
C40_UpdateIsolated ==
    /\ pc = "update" =>
          /\ i \in 1..Len(books)
          /\ stats.success + stats.failed = i - 1
    /\ \A j \in 1..Len(books) : Cardinality(UpdateCalls(j)) <= 1
    /\ \A j \in 1..Len(books) :
          UpdateCalls(j) # {} => pc \in {"update", "notify", "done", "raised"}
    /\ pc = "notify" => stats.success + stats.failed = Len(books)
    /\ pc = "done" => stats.success + stats.failed = Len(books)
    /\ pc = "raised" /\ books # <<>> /\ Len(anLog) = Len(books) =>
          stats.success + stats.failed = Len(books)

\* two books, both updates raise: both are counted as failed, and the
\* summary has been built and handed to the notifier
C40_Witness ==
    /\ pc = "done"
    /\ Len(books) = 2
    /\ stats = [success |-> 0, failed |-> 2]
    /\ Len(message) = 1
    /\ message[1].total_books = 2

=============================================================================
